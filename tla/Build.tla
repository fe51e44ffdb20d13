------------------------------- MODULE Build -------------------------------
(***************************************************************************)
(* makeandtest_gcc_z80_i686.sh (and makeandtest_gcc_z80.sh, which is the   *)
(* same without the 32-bit wrappers): configure, build, install and test   *)
(* the compiler, with clearall_gcc_z80_i686.sh and what its user does.     *)
(*                                                                         *)
(* marker, tree, objs and bin are files and outlive a run of the script;   *)
(* a run can be interrupted at any point, and any tool can fail.           *)
(***************************************************************************)
EXTENDS Naturals

CONSTANTS
  MaxSource,  \* bound: versions of the compiler's source
  MaxFaults   \* bound: failures, interruptions and removals of everything

ASSUME BuildAssumption == MaxSource \in Nat \ {0} /\ MaxFaults \in Nat

VARIABLES
  pc,      \* the next step of the script, or "idle"
  marker,  \* the file is_configured
  tree,    \* the build directory, as configure left it
  objs,    \* the version of the source that the compiler there is built from
  bin,     \* the version of the installed compiler, 0 for none
  told,    \* the steps of this run that reported errors
  src,     \* the version of the source
  begun,   \* history: that version when the run began
  verdict, \* history: what the last configure to end reported, unless the
           \* tree it left was damaged since
  hidden,  \* history: the steps of this run whose errors went unreported
  faults   \* failures so far

files == <<marker, tree, objs, bin>>
history == <<begun, verdict, hidden>>
vars == <<pc, files, told, src, history, faults>>

Init ==
  /\ pc = "idle"
  /\ marker = "absent"
  /\ tree = "none"
  /\ objs = 0
  /\ bin = 0
  /\ told = {"run"}
  /\ src = 1
  /\ begun = 1
  /\ verdict = "none"
  /\ hidden = {}
  /\ faults = 0

Fault == faults < MaxFaults /\ faults' = faults + 1

-----------------------------------------------------------------------------
(* The script.  told holds "run" until the script has come to its end.     *)

Start ==
  /\ pc = "idle"
  /\ pc' = "check"
  /\ told' = {"run"}
  /\ begun' = src
  /\ hidden' = {}
  /\ UNCHANGED <<files, src, verdict, faults>>

\* Missing packages or no ~/bin for the wrappers: exit 1.
CheckHost ==
  /\ pc = "check"
  /\ \/ pc' = "enter" /\ UNCHANGED faults
     \/ pc' = "idle" /\ Fault
  /\ UNCHANGED <<files, told, src, history>>

\* Variant: the marker is touched before configure runs.
EnterBuildDirMarks ==
  /\ pc = "enter"
  /\ pc' = IF marker = "present" THEN "make" ELSE "configure"
  /\ marker' = "present"
  /\ UNCHANGED <<tree, objs, bin, told, src, history, faults>>

EnterBuildDir ==
  /\ pc = "enter"
  /\ pc' = IF marker = "present" THEN "make" ELSE "configure"
  /\ UNCHANGED <<files, told, src, history, faults>>

Configure ==
  /\ pc = "configure"
  /\ pc' = "touch"
  /\ \/ /\ tree' = "configured"
        /\ verdict' = "good"
        /\ UNCHANGED <<told, faults>>
     \/ /\ tree' = "partial"
        /\ verdict' = "errors"
        /\ told' = told \cup {"configure"}
        /\ Fault
  /\ UNCHANGED <<marker, objs, bin, src, begun, hidden>>

\* whether or not configure reported errors
Touch ==
  /\ pc = "touch"
  /\ pc' = "make"
  /\ marker' = "present"
  /\ UNCHANGED <<tree, objs, bin, told, src, history, faults>>

\* make all: a failure may come before or after the compiler is linked, and
\* a partial tree may build without making a compiler.
Make ==
  /\ pc = "make"
  /\ pc' = "install"
  /\ \/ /\ tree = "configured"
        /\ objs' = src
        /\ UNCHANGED <<told, faults>>
     \/ /\ tree = "configured"
        /\ objs' \in {objs, src}
        /\ told' = told \cup {"make"}
        /\ Fault
     \/ /\ tree # "configured"
        /\ told' \in {told, told \cup {"make"}}
        /\ UNCHANGED <<objs, faults>>
  /\ UNCHANGED <<marker, tree, bin, src, history>>

\* Variant: an installed compiler is left in place.
InstallOnce ==
  /\ pc = "install"
  /\ pc' = "test"
  /\ bin' = IF bin = 0 THEN objs ELSE bin
  /\ UNCHANGED <<marker, tree, objs, told, src, history, faults>>

\* make -i install goes on after errors and reports none.
Install ==
  /\ pc = "install"
  /\ pc' = "test"
  /\ \/ objs > 0 /\ bin' = objs /\ UNCHANGED <<hidden, faults>>
     \/ objs = 0 /\ hidden' = {"install"} /\ UNCHANGED <<bin, faults>>
     \/ hidden' = {"install"} /\ Fault /\ UNCHANGED bin
  /\ UNCHANGED <<marker, tree, objs, told, src, begun, verdict>>

\* The simple programs are compiled with whatever is installed, and the
\* compiler may fail on them.
Test ==
  /\ pc = "test"
  /\ pc' = "idle"
  /\ \/ bin > 0 /\ told' = told \ {"run"}
     \/ told' = (told \ {"run"}) \cup {"test"}
  /\ UNCHANGED <<files, src, history, faults>>

\* The script is stopped, before, in or after what it runs at the moment.
Interrupt ==
  /\ pc # "idle"
  /\ pc' = "idle"
  /\ tree' \in {tree} \cup (IF pc = "configure" THEN {"partial"} ELSE {})
  /\ objs' \in {objs} \cup (IF pc = "make" /\ tree = "configured"
                              THEN {src} ELSE {})
  /\ bin' \in {bin} \cup (IF pc = "install" /\ objs > 0 THEN {objs} ELSE {})
  /\ Fault
  /\ UNCHANGED <<marker, told, src, history>>

Script ==
  CheckHost \/ EnterBuildDir \/ Configure \/ Touch \/ Make \/ Install \/ Test

-----------------------------------------------------------------------------
(* The user                                                                *)

Edit ==
  /\ src < MaxSource
  /\ src' = src + 1
  /\ UNCHANGED <<pc, files, told, history, faults>>

\* "to reconfigure remove file is_configured"
RemoveMarker ==
  /\ pc = "idle"
  /\ marker = "present"
  /\ marker' = "absent"
  /\ UNCHANGED <<pc, tree, objs, bin, told, src, history, faults>>

\* clearall_gcc_z80_i686.sh, answered with y
ClearAll ==
  /\ pc = "idle"
  /\ marker' = "absent"
  /\ tree' = "none"
  /\ objs' = 0
  /\ bin' = 0
  /\ told' = {"run"}
  /\ verdict' = "none"
  /\ Fault
  /\ UNCHANGED <<pc, src, begun, hidden>>

\* Its rm -r is stopped or fails half-way, in whatever order it removes the
\* files of the build and install directories.
ClearStopped ==
  /\ pc = "idle"
  /\ marker' \in {marker, "absent"}
  /\ tree' \in IF tree = "none" THEN {tree} ELSE {tree, "partial", "none"}
  /\ objs' \in {objs, 0}
  /\ tree' = "none" => marker' = "absent" /\ objs' = 0
  /\ bin' \in {bin, 0}
  /\ told' = {"run"}
  /\ verdict' = IF tree' = tree THEN verdict ELSE "damaged"
  /\ Fault
  /\ UNCHANGED <<pc, src, begun, hidden>>

User == Edit \/ RemoveMarker \/ ClearAll \/ ClearStopped

Next == Start \/ Script \/ Interrupt \/ User

\* A script that was started goes on, and is run again and again.  Nothing
\* makes its user remove the marker.
Spec == Init /\ [][Next]_vars /\ WF_vars(Start) /\ WF_vars(Script)

-----------------------------------------------------------------------------
(***************************************************************************)
(* Types, and what the script's position says of the files: configure is   *)
(* run without a marker only, and has left something when touch comes.     *)
(***************************************************************************)
TypeOK ==
  /\ pc \in {"idle", "check", "enter", "configure", "touch", "make",
             "install", "test"}
  /\ marker \in {"absent", "present"}
  /\ tree \in {"none", "partial", "configured"}
  /\ src \in 1..MaxSource
  /\ objs \in 0..src
  /\ bin \in 0..src
  /\ begun \in 1..src
  /\ told \subseteq {"run", "configure", "make", "test"}
  /\ verdict \in {"none", "good", "errors", "damaged"}
  /\ hidden \subseteq {"install"}
  /\ faults \in 0..MaxFaults
  /\ pc = "configure" => marker = "absent"
  /\ pc = "touch" => tree # "none"

(***************************************************************************)
(* The marker is_configured stands for a configured build directory unless *)
(* the script has said "Configure reported errors" or clearall was stopped *)
(* half-way: an interruption of the script itself, at any point of a run,  *)
(* never leaves a marker on a directory that is not configured.            *)
(***************************************************************************)
MarkerHonest ==
  marker = "present" /\ tree # "configured" =>
    verdict \in {"errors", "damaged"}

(***************************************************************************)
(* The marker stands for a configured build directory, as the script's     *)
(* "Already configured" takes for granted.                                 *)
(***************************************************************************)
MarkedConfigured == marker = "present" => tree = "configured"

(***************************************************************************)
(* The compiler that the test programs were compiled with is no older than *)
(* the source was when the run began, if the run came to its end with no   *)
(* error reported and none that make -i hid, on a tree that configure left *)
(* without errors.                                                         *)
(***************************************************************************)
CleanRunFresh ==
  pc = "idle" /\ told \cup hidden = {} /\ verdict = "good" => bin >= begun

(***************************************************************************)
(* When the script says "Install succeded without errors" (it always does: *)
(* make -i has no failure to report), what was built is installed.         *)
(***************************************************************************)
ReportedInstalled == pc = "test" /\ "install" \notin told => bin = objs

\* The marker keeps the script from configuring a tree that needs it.
Stuck == marker = "present" /\ tree # "configured"

(***************************************************************************)
(* Once nothing fails any more and the source is left alone, running the   *)
(* script again and again installs the compiler of that source, whatever   *)
(* failures and interruptions have left behind, unless that is a marker on *)
(* a tree that is not configured: the script never gets out of this.       *)
(***************************************************************************)
Recovers == <>[](bin = src) \/ <>[]Stuck
=============================================================================
