------------------------------ MODULE Attempts ------------------------------
(***************************************************************************)
(* What the device's network side promises to a page: every request it     *)
(* accepts is followed by an attempt with a number of its own, and the     *)
(* data shows how the latest attempt came out.  NetFsm implements this;    *)
(* Onboarding is the page that relies on it.                               *)
(***************************************************************************)
EXTENDS Naturals

CONSTANTS
  Networks, NoNet,            \* the networks that may be chosen; "no SSID"
  MaxRequests, MaxBoots       \* bounds: requests accepted, restarts

VARIABLES
  stored,    \* the network that is configured
  pending,   \* an attempt is asked for
  seen,      \* what /api/data tells of the latest attempt; boot and covers are
             \* history: its restart, the requests accepted before it
  accepted,  \* history: the requests accepted
  boots

netVars == <<stored, pending, seen, accepted, boots>>

Blank(b) == [boot |-> b, try |-> 0, result |-> "NONE", ssid |-> NoNet, handover |-> FALSE, covers |-> 0]

\* The web is served after the first attempt of a boot has begun.
Serving == seen.try > 0

Ask(s) ==
  /\ Serving /\ accepted < MaxRequests
  /\ accepted' = accepted + 1
  /\ stored' = s /\ pending' = TRUE
  /\ UNCHANGED <<seen, boots>>

Begin ==
  /\ pending /\ pending' = FALSE
  /\ seen' = [boot |-> boots, try |-> seen.try + 1, ssid |-> stored, handover |-> FALSE,
              covers |-> accepted, result |-> IF stored = NoNet THEN "NONE" ELSE "TRYING"]
  /\ UNCHANGED <<stored, accepted, boots>>

\* An attempt comes out one way or the other, a connection is lost, the
\* device tries again by itself, or the address of an attempt that was given
\* up comes late; the handover may follow a connection.
Moves == {<<"TRYING", "CONNECTED">>, <<"TRYING", "FAILED">>, <<"CONNECTED", "CONNECTED">>,
          <<"CONNECTED", "NONE">>, <<"NONE", "TRYING">>, <<"FAILED", "TRYING">>,
          <<"NONE", "CONNECTED">>, <<"FAILED", "CONNECTED">>}
Proceed ==
  /\ ~pending /\ stored # NoNet
  /\ \E r \in {"NONE", "TRYING", "CONNECTED", "FAILED"}, h \in BOOLEAN :
       /\ <<seen.result, r>> \in Moves
       /\ h => r = "CONNECTED" /\ (seen.handover \/ seen.result # "CONNECTED")
       /\ seen' = [seen EXCEPT !.result = r, !.handover = h]
  /\ UNCHANGED <<stored, pending, accepted, boots>>

Boot ==
  /\ boots < MaxBoots /\ boots' = boots + 1
  /\ seen' = Blank(boots') /\ pending' = TRUE
  /\ UNCHANGED <<stored, accepted>>

NetInit ==
  /\ stored \in Networks \union {NoNet}
  /\ pending = TRUE /\ seen = Blank(0)
  /\ accepted = 0 /\ boots = 0

NetNext == Begin \/ Proceed \/ Boot \/ \E s \in Networks \union {NoNet} : Ask(s)

NetFairness == WF_netVars(Begin)

NetSpec == NetInit /\ [][NetNext]_netVars /\ NetFairness
=============================================================================
