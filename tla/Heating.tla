------------------------------- MODULE Heating -------------------------------
(***************************************************************************)
(* The power manager and the interlock engine in series, as outputStep     *)
(* runs them: the requests of the one are the other's inputs, in the same  *)
(* tick, and the engine may hold back for long what is asked of it.        *)
(***************************************************************************)
EXTENDS Power

CONSTANTS
  InterlockOf,  \* the InterlockParams that go with a configuration
  Demands       \* heat_demand_, in per cent

ASSUME HeatingAssumption == Demands \subseteq 0 .. 100 /\ 0 \in Demands

VARIABLES
  run,   \* the system is in state RUN, or else in FAILSAFE
  cfg, eff, held, wasHeating, postCool, bootPc, pcT, applied, violation

engineVars == <<cfg, eff, held, wasHeating, postCool, bootPc, pcT, applied, violation>>
vars == <<run, powerVars, engineVars>>

-----------------------------------------------------------------------------
HeatInput(chain, blocked, on) ==
  [dt |-> 1, chain |-> chain, rReq |-> [r \in R |-> r \in on],
   lockout |-> blocked, arm |-> ~blocked, hfReq |-> FALSE, vfReq |-> FALSE,
   vfForce |-> FALSE, hfForce |-> FALSE, antifreeze |-> FALSE,
   vfInhibit |-> FALSE, t2Cool |-> FALSE]

HeatInputs ==
  {HeatInput(chain, blocked, on) : chain, blocked \in BOOLEAN, on \in SUBSET R}
EngineConfigs == {InterlockOf[c] : c \in PowerConfigs}

Engine == INSTANCE Interlock WITH Configs <- EngineConfigs, Inputs <- HeatInputs

\* Every configuration gives the engine parameters that are valid (rule 10).
ASSUME InterlockOfAssumption ==
  \A c \in PowerConfigs :
    /\ InterlockOf[c] \in Engine!ConfigType
    /\ 0 < InterlockOf[c].pcMin /\ InterlockOf[c].pcMin <= InterlockOf[c].pc
    /\ InterlockOf[c].pc <= InterlockOf[c].pcMax

Init ==
  /\ run = TRUE
  /\ PowerInit
  /\ Engine!Init
  /\ cfg = InterlockOf[pp]

\* The heating part of outputStep, for a demand of d per cent; a lockout may
\* have come up since the demand was made.
OutputTick(d, locked, rotate) ==
  LET asked == IF run THEN d ELSE 0
  IN  /\ PowerStep(asked, rotate)
      /\ Engine!OutputStep(HeatInput(asked > 0, locked \/ ~run, {r \in R : req'[r]}))
      /\ run' = ~locked

\* commitConfig
Commit(c) ==
  /\ SetPower(c)
  /\ Engine!SetParams(InterlockOf[c])
  /\ UNCHANGED run

SomeTick == \E d \in Demands, locked, rotate \in BOOLEAN : OutputTick(d, locked, rotate)

Next == SomeTick \/ \E c \in PowerConfigs : Commit(c)

\* The output task runs in every period (or SafetyTask resets the device).
Spec == Init /\ [][Next]_vars /\ WF_vars(SomeTick)

-----------------------------------------------------------------------------
\* The types of the state.
TypeOK == run \in BOOLEAN /\ PowerTypeOK /\ Engine!TypeOK

\* OUTPUT_AND_INTERLOCKS 3.1: the second resistor only adds to the first one;
\* whenever a tick asks for it, it asks for the lead resistor, too, across
\* changes of stage, of the lead and of the windows' length.
FollowerOnlyAdds ==
  [][ch' # ch => (req'[Other(lead')] => req'[lead'] /\ stage' = 2)]_vars

\* OUTPUT_AND_INTERLOCKS 3.4: while heat is asked for, no rotation moves it
\* from one resistor to the other.
LeadKeepsItsHeat == [][ch' # ch /\ stage' # 0 => lead' = lead]_vars

\* cc_power.cpp, 129: two large loads are not switched on in the same tick, at
\* the relays.
OneLoadAtATime == [][(\E r \in R : eff[r]) \/ (\E r \in R : ~eff'[r])]_vars

\* cc_power.cpp, 35, and OUTPUT_AND_INTERLOCKS 3.3: of resistors of different
\* power the smaller one is modulated first.
SmallerLeads == Unequal(pp) => lead = Smaller(pp)

\* PID's top demand is met: if it stays, without a lockout or a new
\* configuration, both resistors end up on for good.
FullDemand == \E rotate \in BOOLEAN : OutputTick(100, FALSE, rotate)
FullDemandIsMet == <>[][FullDemand]_vars => <>[](\A r \in R : eff[r])

=============================================================================
