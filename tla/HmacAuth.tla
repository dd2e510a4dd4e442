----------------------------- MODULE HmacAuth ------------------------------
(***************************************************************************)
(* Request signatures (internal/hmacauth).  Integers are int64 in the code *)
(* and wrap; here they wrap at IntHalf, with a Second and a window to the  *)
(* same scale.  A MAC is the tuple it authenticates: HMAC-SHA256 over the  *)
(* signed string is taken to be collision-free and unforgeable, and the    *)
(* string can be read back in one way only (no newline in a method, a hash *)
(* of fixed length), so distinct requests have distinct MACs.              *)
(***************************************************************************)
EXTENDS Integers

CONSTANTS
    IntHalf,        \* int64 holds -IntHalf .. IntHalf - 1
    Second,         \* time.Second, in nanoseconds
    DefaultWindow,  \* hmacauth.DefaultWindow
    AuthWindow      \* --auth-window

ASSUME IntAssumption == IntHalf \in Nat \ {0} /\ Second \in Nat \ {0}

Int64 == (-IntHalf)..(IntHalf - 1)

ASSUME WindowAssumption ==
    /\ DefaultWindow \in Int64 /\ DefaultWindow > 0
    /\ AuthWindow \in Int64

\* A timestamp header: what ParseInt makes of it.
TsHeader == [ok : BOOLEAN, val : Int64]

Wrap(x) == ((x + IntHalf) % (2 * IntHalf)) - IntHalf

Window(w) == IF w <= 0 THEN DefaultWindow ELSE w

Drift(now, ts) ==
    LET d == Wrap(now - ts) IN IF d < 0 THEN Wrap(-d) ELSE d

\* Mutant: a timestamp from the future passes.
StalePastOnly(now, ts) == Wrap(Wrap(now - ts) * Second) > Window(AuthWindow)

Stale(now, ts) == Wrap(Drift(now, ts) * Second) > Window(AuthWindow)

Sign(key, method, path, ts, body) == << key, method, path, ts, body >>

Verify(key, method, path, tsHeader, sigHeader, body, now) ==
    IF ~ tsHeader.ok THEN "ErrBadTimestamp"
    ELSE IF Stale(now, tsHeader.val) THEN "ErrStale"
    ELSE IF sigHeader # Sign(key, method, path, tsHeader.val, body)
         THEN "ErrBadSignature"
    ELSE "nil"
=============================================================================
