----------------------------- MODULE MCHmacAuth ----------------------------
(***************************************************************************)
(* One signed request, presented again and again while the server's clock  *)
(* runs: every timestamp an int64 of this width can hold.                  *)
(***************************************************************************)
EXTENDS HmacAuth

CONSTANT MaxNow   \* the clock's last value

VARIABLES now, header

Request(h) == Sign("key", "PUT", "path", h.val, "body")

Verdict ==
    Verify("key", "PUT", "path", header, Request(header), "body", now)

Init == now = 0 /\ header \in TsHeader

Tick == now < MaxNow /\ now' = now + 1 /\ UNCHANGED header

Next == Tick

Spec == Init /\ [][Next]_<< now, header >>

Abs(x) == IF x < 0 THEN -x ELSE x

\* The distance from the timestamp to the clock, in nanoseconds, not wrapped.
Distance == Abs(now - header.val) * Second

\* docs/update-api.md:25 "The server rejects timestamps outside
\* `--auth-window`": for every timestamp the header can carry.
ReplayIsBounded ==
    (header.ok /\ Verdict = "nil") => Distance <= Window(AuthWindow)
=============================================================================
