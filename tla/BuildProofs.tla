---------------------------- MODULE BuildProofs ----------------------------
(* The safety properties of Build, for any number of failures and edits.   *)
EXTENDS Build, TLAPS

\* What holds at each step of a run that has gone well so far: the files
\* are no older than the run.
RunInv ==
  /\ pc # "idle" => "run" \in told
  /\ pc = "touch" => tree = "configured" \/ verdict = "errors"
  /\ pc = "make" => marker = "present"
  /\ pc = "install" /\ "make" \notin told /\ verdict = "good"
       => objs >= begun
  /\ pc = "test" /\ "make" \notin told /\ hidden = {} /\ verdict = "good"
       => bin >= begun

BuildInv == TypeOK /\ MarkerHonest /\ CleanRunFresh /\ RunInv

LEMMA BuildInit == Init => BuildInv
BY BuildAssumption
   DEF Init, BuildInv, TypeOK, MarkerHonest, CleanRunFresh, RunInv

LEMMA BuildStep == BuildInv /\ [Next]_vars => BuildInv'
<1> SUFFICES ASSUME BuildInv, [Next]_vars
             PROVE  BuildInv'
    OBVIOUS
<1> USE BuildAssumption DEF BuildInv, TypeOK, MarkerHonest, CleanRunFresh,
        RunInv, files, history, Fault
<1>1. CASE Start
      BY <1>1 DEF Start
<1>2. CASE CheckHost
      BY <1>2 DEF CheckHost
<1>3. CASE EnterBuildDir
      BY <1>3 DEF EnterBuildDir
<1>4. CASE Configure
  <2>1. TypeOK'
    <3>1. told' \subseteq {"run", "configure", "make", "test"}
          BY <1>4 DEF Configure
    <3>2. faults' \in 0..MaxFaults
          BY <1>4 DEF Configure
    <3>3. tree' \in {"partial", "configured"} /\ verdict' \in {"good", "errors"}
          BY <1>4 DEF Configure
    <3> QED BY <1>4, <3>1, <3>2, <3>3 DEF Configure
  <2>2. MarkerHonest'
        BY <1>4 DEF Configure
  <2>3. CleanRunFresh'
        BY <1>4 DEF Configure
  <2>4. RunInv'
        BY <1>4 DEF Configure
  <2> QED BY <2>1, <2>2, <2>3, <2>4
<1>5. CASE Touch
      BY <1>5 DEF Touch
<1>6. CASE Make
  <2>1. TypeOK'
    <3>1. told' \subseteq {"run", "configure", "make", "test"}
          BY <1>6 DEF Make
    <3>2. faults' \in 0..MaxFaults
          BY <1>6 DEF Make
    <3>3. objs' \in 0..src'
          BY <1>6 DEF Make
    <3> QED BY <1>6, <3>1, <3>2, <3>3 DEF Make
  <2>2. MarkerHonest'
        BY <1>6 DEF Make
  <2>3. CleanRunFresh'
        BY <1>6 DEF Make
  <2>4. RunInv'
        BY <1>6 DEF Make
  <2> QED BY <2>1, <2>2, <2>3, <2>4
<1>7. CASE Install
  <2>1. TypeOK'
    <3>1. hidden' \subseteq {"install"}
          BY <1>7 DEF Install
    <3>2. faults' \in 0..MaxFaults
          BY <1>7 DEF Install
    <3>3. bin' \in 0..src'
          BY <1>7 DEF Install
    <3> QED BY <1>7, <3>1, <3>2, <3>3 DEF Install
  <2>2. MarkerHonest'
        BY <1>7 DEF Install
  <2>3. CleanRunFresh'
        BY <1>7 DEF Install
  <2>4. RunInv'
        BY <1>7 DEF Install
  <2> QED BY <2>1, <2>2, <2>3, <2>4
<1>8. CASE Test
  <2>1. TypeOK'
        BY <1>8 DEF Test
  <2>2. MarkerHonest'
        BY <1>8 DEF Test
  <2>3. CleanRunFresh'
        BY <1>8 DEF Test
  <2>4. RunInv'
        BY <1>8 DEF Test
  <2> QED BY <2>1, <2>2, <2>3, <2>4
<1>9. CASE Interrupt
      BY <1>9 DEF Interrupt
<1>10. CASE Edit
      BY <1>10 DEF Edit
<1>11. CASE RemoveMarker
      BY <1>11 DEF RemoveMarker
<1>12. CASE ClearAll
      BY <1>12 DEF ClearAll
<1>13. CASE ClearStopped
      BY <1>13 DEF ClearStopped
<1>14. CASE UNCHANGED vars
      BY <1>14 DEF vars
<1> QED BY <1>1, <1>2, <1>3, <1>4, <1>5, <1>6, <1>7, <1>8, <1>9, <1>10,
           <1>11, <1>12, <1>13, <1>14 DEF Next, Script, User

LEMMA BuildInvariant == Spec => []BuildInv
BY BuildInit, BuildStep, PTL DEF Spec

(***************************************************************************)
(* The script's state keeps its type over any number of runs.              *)
(***************************************************************************)
THEOREM BuildTypes == Spec => []TypeOK
BY BuildInvariant, PTL DEF BuildInv

(***************************************************************************)
(* However often the script is interrupted and whatever fails, a build     *)
(* directory that is marked is configured unless configure complained or   *)
(* clearall_gcc_z80_i686.sh was stopped half-way.                          *)
(***************************************************************************)
THEOREM MarkerTrue == Spec => []MarkerHonest
BY BuildInvariant, PTL DEF BuildInv

(***************************************************************************)
(* A run that reports no error, hides none and stands on a good configure  *)
(* leaves a compiler no older than the source the run began with.          *)
(***************************************************************************)
THEOREM CleanRuns == Spec => []CleanRunFresh
BY BuildInvariant, PTL DEF BuildInv
=============================================================================
