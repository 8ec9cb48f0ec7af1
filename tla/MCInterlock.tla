----------------------------- MODULE MCInterlock -----------------------------
(***************************************************************************)
(* An instance of Interlock for TLC.                                       *)
(***************************************************************************)
EXTENDS Interlock

Config(pre, rOn, rOff, mode, pc) ==
  [prestart |-> pre, rMinOn |-> rOn, rMinOff |-> rOff, hfMinOn |-> 2,
   hfMinOff |-> 1, vfMinOn |-> 2, vfMinOff |-> 2, pcMode |-> mode, pc |-> pc,
   pcMin |-> 1, pcMax |-> 4]

\* The thresholds of one output are all different, and below Forever.
TimeConfig   == Config(2, 2, 1, "TIME", 3)
HybridConfig == Config(1, 1, 2, "HYBRID", 2)
TempConfig   == Config(0, 1, 1, "TEMPERATURE", 3)

MCConfigs == {TimeConfig, HybridConfig, TempConfig}

Quiet ==
  [dt |-> 1, chain |-> FALSE, rReq |-> [r \in R |-> FALSE], hfReq |-> FALSE,
   vfReq |-> FALSE, lockout |-> FALSE, arm |-> TRUE, vfForce |-> FALSE,
   hfForce |-> FALSE, antifreeze |-> FALSE, vfInhibit |-> FALSE,
   t2Cool |-> FALSE]

Asking(on) == [Quiet EXCEPT !.chain = TRUE, !.rReq = [r \in R |-> r \in on]]

\* Heat wanted or not, with and without a manual fan request and a cool duct.
Demands ==
  {[in EXCEPT !.hfReq = man, !.t2Cool = cool] :
     in \in {Quiet} \union {Asking(on) : on \in SUBSET R},
     man \in BOOLEAN, cool \in BOOLEAN}

\* Heat wanted while it is locked out, not armed, or the duct is too hot;
\* outputStep arms the heaters only when nothing locks them out.
Refusals ==
  {[Asking(R) EXCEPT !.lockout = lock, !.arm = FALSE, !.hfReq = man] :
     lock \in BOOLEAN, man \in BOOLEAN}
  \union {[Quiet EXCEPT !.hfForce = TRUE]}

\* Steps that run late.
Late == {[in EXCEPT !.dt = 2] : in \in {Quiet, Asking({"R1"}), Asking(R)}}

\* The ventilation side.
VentInputs ==
  {[Quiet EXCEPT !.vfReq = TRUE, !.vfForce = force, !.antifreeze = af,
                 !.vfInhibit = inh] :
     force \in BOOLEAN, af \in BOOLEAN, inh \in BOOLEAN}

MCInputs == Demands \union Refusals \union Late \union VentInputs

=============================================================================
