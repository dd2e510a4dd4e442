----------------------------- MODULE ApiClient -----------------------------
(***************************************************************************)
(* The clients of the update API that come with the program: the commands  *)
(* update, acme, list and sign (internal/cli/client.go).  A command makes  *)
(* one request, signed with the time of the client's clock; when it        *)
(* arrives, and how often, is the matter of UpdateAPI.                     *)
(*                                                                         *)
(* A value on the command line is a record: addr is what ParseAddr makes   *)
(* of it (NoAddr: an error), txt the string.                               *)
(***************************************************************************)
EXTENDS UpdateAPI

CONSTANT Command   \* the command lines

\* What the flags of a command line parse to; a type in capitals is what
\* ToUpper makes of it.
ASSUME CommandAssumption ==
    /\ \A type \in Type : UpperOf[type] = type
    /\ \A c \in Command :
         /\ c.cmd \in {"update", "delete", "acme set", "acme clear", "list"}
         /\ c.cmd = "update" => c.value.addr \in Addr \cup {NoAddr}

NoBody == [kind |-> "empty"]

Body(type, value, ttl) ==
    [kind |-> "json", type |-> type, addr |-> value.addr, txt |-> value.txt, ttl |-> ttl]

\* Mutant: the family of the address as it is written.
InferredByFamily(value) ==
    IF ~ IsValid(value.addr) THEN "TXT"
    ELSE IF Is4(value.addr) THEN "A"
    ELSE "AAAA"

\* The type of a record that runUpdate sends when --type is not given.
InferredType(value) ==
    IF ~ IsValid(value.addr) THEN "TXT"
    ELSE IF Is4(Unmap(value.addr)) THEN "A"
    ELSE "AAAA"

\* apiFlags.call at time t, and what runSign prints the headers of.
Signed(method, route, name, body, t) ==
    [method |-> method, route |-> route, name |-> name, body |-> body,
     ts |-> [ok |-> TRUE, val |-> t],
     sig |-> Sign(ApiKey, method, << route, name >>, t, body)]

\* runUpdate, runAcme and runList.
Sent(c, t) ==
    CASE c.cmd = "update" ->
           LET type == IF c.type = "" THEN InferredType(c.value) ELSE c.type IN
           Signed("PUT", "record", c.name, Body(type, c.value, c.ttl), t)
      [] c.cmd = "delete"     -> Signed("DELETE", "record", c.name, NoBody, t)
      [] c.cmd = "acme set"   -> Signed("PUT", "acme", c.name, Body("", c.value, 0), t)
      [] c.cmd = "acme clear" -> Signed("DELETE", "acme", c.name, NoBody, t)
      [] c.cmd = "list"       -> Signed("GET", "records", EmptyName, NoBody, t)

(***************************************************************************)
(* What the documentation lets a command ask for (docs/update-api.md), in  *)
(* terms of the fully qualified name that is spelled and of the value.     *)
(***************************************************************************)
\* A name of one to three labels below the apex.
RightName(n) ==
    LET deep == Len(Asked(n)) - Len(Zone) IN
    /\ CanonicalName(n) # Zone
    /\ deep \in 1..3
    /\ \A i \in 1..deep : Asked(n)[i] \in ValidLabel

\* The record of an update, NoRecord where type and value do not go together:
\* an address has the type of its family, and IPv4 written as IPv6 is IPv4; a
\* text that fits is TXT.  Without --type an address is one of its family and
\* everything else a text.
Wanted(c) ==
    LET v    == c.value
        is(type) == IF c.type # "" THEN UpperOf[c.type] = type
                    ELSE (type = "TXT") <=> (v.addr = NoAddr)
    IN  CASE is("A") /\ v.addr.fam \in {"v4", "4in6"} ->
               AddrRecord("A", [fam |-> "v4", bits |-> v.addr.bits], c.ttl)
          [] is("AAAA") /\ v.addr.fam = "v6" -> AddrRecord("AAAA", v.addr, c.ttl)
          [] is("TXT") /\ v.txt \in ValidText -> TxtRecord(v.txt, c.ttl)
          [] OTHER -> NoRecord

IsAcme(c) == c.cmd \in {"acme set", "acme clear"}

Right(c) ==
    CASE c.cmd = "update"     -> RightName(c.name) /\ Wanted(c) # NoRecord
      [] c.cmd = "delete"     -> RightName(c.name)
      [] c.cmd = "acme set"   -> /\ RightName(c.name) \/ Challenged(c.name) = Zone
                                 /\ c.value.txt \in ValidText
      [] c.cmd = "acme clear" -> RightName(c.name) \/ Challenged(c.name) = Zone
      [] c.cmd = "list"       -> TRUE

\* A challenge for a name of three labels.
DeepChallenge(c) == IsAcme(c) /\ Len(Challenged(c.name)) = Len(Zone) + 3

\* The store call that carries out a right command.
Meant(c) ==
    LET n == Left(Target(IF IsAcme(c) THEN "acme" ELSE "record", c.name), Zone) IN
    CASE c.cmd = "update"     -> SetCall(n, Wanted(c))
      [] c.cmd = "delete"     -> DeleteCall(n, AllTypes)
      [] c.cmd = "acme set"   -> SetCall(n, TxtRecord(c.value.txt, 30))
      [] c.cmd = "acme clear" -> DeleteCall(n, "TXT")
      [] c.cmd = "list"       -> NamesCall

Late(t, u) == (IF u < t THEN t - u ELSE u - t) * Second > Window(AuthWindow)

\* A command that is right by the documentation, and that arrives within the
\* window of its timestamp, becomes the store call it means: the name, the
\* type, the value and the TTL survive the client, the signature and the
\* handler (client.go:69-107 and 139-152 against authenticate, relName,
\* buildRecord and acme of api.go).  Every other one is refused with the
\* status of its fault.  The documentation notwithstanding, so is a challenge
\* for a name of three labels (docs/update-api.md:54 against api.go:255-262).
CommandsAreUnderstood ==
    [][\A g \in Proc :
         (job[g] = Idle /\ job'[g] # Idle) =>
           \A c \in Command : \A t \in 0..MaxNow :
             job'[g].req = Sent(c, t) =>
               IF Late(t, now) THEN job'[g] = Reply(Sent(c, t), 401, Nothing)
               ELSE IF Right(c) /\ ~ DeepChallenge(c)
               THEN job'[g].at = "serve" /\ call'[g] = Meant(c)
               ELSE job'[g] = Reply(Sent(c, t), 400, Nothing)
      ]_<< storeVars, apiVars >>
=============================================================================
