--------------------------- MODULE Project_proofs ---------------------------
(***************************************************************************)
(* For any number of processes and scenarios: the lock makes engaged runs  *)
(* exclusive, and with that no acknowledgement is lost and no drift is     *)
(* missed; a start time stands for one run, and with that the history      *)
(* records runs as they went and its trend agrees with the ledger.         *)
(***************************************************************************)
EXTENDS Project, TLAPS, SequenceTheorems, WellFoundedInduction

(* The variables the proofs follow are functions of the processes.         *)
Frames ==
  /\ pc = [p \in Procs |-> pc[p]]
  /\ res = [p \in Procs |-> res[p]]
  /\ got = [c \in Clis |-> got[c]]
  /\ exit = [c \in Clis |-> exit[c]]
  /\ acked = [n \in DOMAIN acked |-> acked[n]]
  /\ torn \in BOOLEAN

(* An engaged process holds the lock.                                      *)
LockInv == \A p \in Procs : Engaged(p) => lock = p

(* Every finding of a result is a finding of its scenario.                 *)
OwnFindings(sc) ==
  /\ sc.findings \in Seq(Members(sc.findings))
  /\ \A f \in Members(sc.findings) : f.scenario = sc.name /\ f.nowPasses \in BOOLEAN

ResInv ==
  \A p \in Procs :
    /\ \E S : res[p].scenarios \in Seq(S)
    /\ \A i \in DOMAIN res[p].scenarios : OwnFindings(res[p].scenarios[i])

(* What `run -u` has acknowledged, for the scenarios it is kept by.        *)
Acknowledgements == UNION {acked[n].entries : n \in DOMAIN acked}

AckedInv == \A n \in DOMAIN acked : \A e \in acked[n].entries : e.scenario = n

(* What an invocation has loaded is what the ledger holds, and, inside the *)
(* rewrite, what has been acknowledged.                                    *)
LoadedInv ==
  \A c \in Clis :
    /\ pc[c] \in {"update", "judge"} => got[c] = ledger
    /\ pc[c] \in {"update", "writing"} => Opts[c].update
    /\ pc[c] = "writing" => torn \/ got[c].entries = Acknowledgements

IInv == Frames /\ LockInv /\ ResInv /\ AckedInv /\ LoadedInv /\ NoLostAcknowledgement

LEMMA LockExcludes == LockInv => OneRunAtATime
  BY DEF LockInv, OneRunAtATime

-----------------------------------------------------------------------------
(* The steps, one invariant at a time.                                     *)

LEMMA FramesStep == IInv /\ [Next]_vars => Frames'
  <1> SUFFICES ASSUME IInv, [Next]_vars PROVE Frames'
    OBVIOUS
  <1> USE DEF IInv, Frames, Goto
  <1>1. CASE UNCHANGED vars
    BY <1>1 DEF vars
  <1>2. ASSUME NEW p \in Procs, RunStep(p) PROVE Frames'
    BY <1>2 DEF RunStep, LockRun, Refused, Select, BeginScenario, EndScenario, EndRun, Return,
                Exit, AddResult, memory, ghosts, Procs
  <1>3. ASSUME NEW c \in Clis, CliStep(c) \/ Killed(c) PROVE Frames'
    <2>1. CASE RunStep(c)
      BY <2>1, <1>2 DEF Procs
    <2>2. CASE WriteLedger(c)
      BY <2>2 DEF WriteLedger, Exit
    <2>3. CASE Prepare(c) \/ WriteReports(c) \/ Record(c) \/ Killed(c)
      BY ZenonT(30), <2>3 DEF Prepare, WriteReports, Record, Killed, Exit, memory, ghosts
    <2>4. CASE LoadLedger(c) \/ TruncateLedger(c)
      BY <2>4 DEF LoadLedger, TruncateLedger, memory, ghosts
    <2>5. CASE Judge(c)
      BY ZenonT(30), <2>5 DEF Judge, Exit, memory, ghosts
    <2>6. QED
      BY <1>3, <2>1, <2>2, <2>3, <2>4, <2>5 DEF CliStep
  <1>4. CASE TuiStep
    <2>1. CASE RunStep(Tui)
      BY <2>1, <1>2 DEF Procs
    <2>2. CASE HandleDone \/ BackKey \/ Quit
      BY <2>2 DEF HandleDone, BackKey, Quit, memory, ghosts
    <2>3. CASE ReDiscover \/ DeleteSelected \/ SubmitForm \/ CancelKey
      BY <2>3 DEF ReDiscover, DeleteSelected, SubmitForm, CancelKey, Touch, running, memory, ghosts
    <2>4. CASE LaunchRun \/ StartRunAll
      BY <2>4 DEF LaunchRun, StartRunAll, Launch, memory, ghosts
    <2>5. QED
      BY <1>4, <2>1, <2>2, <2>3, <2>4 DEF TuiStep
  <1>5. QED
    BY <1>1, <1>3, <1>4 DEF Next

EngagedPlaces == {"select", "loop", "scenario", "ran", "record", "ledger", "update", "writing",
                  "judge"}

(* A move of one process between places, as far as the lock is concerned.  *)
LEMMA Move ==
  ASSUME Frames, LockInv, NEW p \in Procs, NEW l, pc' = [pc EXCEPT ![p] = l],
         \/ l \notin EngagedPlaces /\ (lock' = lock \/ lock' = IF lock = p THEN None ELSE lock)
         \/ Engaged(p) /\ lock' = lock
         \/ lock = None /\ lock' = p
  PROVE  LockInv'
  <1> SUFFICES ASSUME NEW q \in Procs, Engaged(q)' PROVE lock' = q
    BY DEF LockInv
  <1>1. pc'[p] = l /\ (q # p => pc'[q] = pc[q])
    BY DEF Frames
  <1>2. CASE q = p
    BY <1>1, <1>2 DEF LockInv, Engaged, EngagedPlaces
  <1>3. CASE q # p
    <2>1. Engaged(q)
      BY <1>1, <1>3 DEF Engaged
    <2>2. lock = q /\ q # None
      BY <2>1, ProcsAssumption DEF LockInv
    <2>3. QED
      BY <2>2, <1>3 DEF LockInv
  <1>4. QED
    BY <1>2, <1>3

LEMMA Stay ==
  ASSUME LockInv, pc' = pc, lock' = lock
  PROVE  LockInv'
  BY DEF LockInv, Engaged

(* A process is engaged only after it has taken the lock, and gives it up  *)
(* when it stops being engaged; no one else touches it meanwhile.          *)
LEMMA LockStep == IInv /\ [Next]_vars => LockInv'
  <1> SUFFICES ASSUME IInv, [Next]_vars PROVE LockInv'
    OBVIOUS
  <1>0. Frames /\ LockInv
    BY DEF IInv
  <1>1. CASE UNCHANGED vars
    BY <1>0, <1>1, Stay DEF vars
  <1>2. ASSUME NEW p \in Procs, RunStep(p) PROVE LockInv'
    <2>1. CASE LockRun(p)
      BY <1>0, <2>1, Move DEF LockRun, CanLock, Goto
    <2>2. CASE Refused(p)
      <3>1. CASE p = Tui
        BY <1>0, <2>2, <3>1, Move DEF Refused, Return, Goto, EngagedPlaces
      <3>2. CASE p # Tui
        BY <1>0, <2>2, <3>2, Move DEF Refused, Exit, Goto, EngagedPlaces
      <3>3. QED
        BY <3>1, <3>2
    <2>3. CASE Select(p)
      <3>1. Engaged(p)
        BY <2>3 DEF Select, Engaged
      <3>2. CASE Return(NoRun) /\ p = Tui
        BY <1>0, <3>2, Move DEF Return, Goto, EngagedPlaces
      <3>3. CASE Exit(p, 64)
        BY <1>0, <3>3, Move DEF Exit, Goto, EngagedPlaces
      <3>4. CASE Goto(p, "loop") /\ UNCHANGED lock
        BY <1>0, <3>1, <3>4, Move DEF Goto
      <3>5. QED
        BY <2>3, <3>2, <3>3, <3>4 DEF Select
    <2>4. CASE BeginScenario(p)
      <3>1. Engaged(p) /\ lock' = lock
        BY <2>4 DEF BeginScenario, Engaged
      <3>2. pc' = pc \/ Goto(p, "scenario")
        BY <2>4 DEF BeginScenario
      <3>3. QED
        BY <1>0, <3>1, <3>2, Move, Stay DEF Goto
    <2>5. CASE EndScenario(p)
      BY <1>0, <2>5, Move DEF EndScenario, Engaged, Goto
    <2>6. CASE EndRun(p)
      <3>1. Engaged(p)
        BY <2>6 DEF EndRun, Engaged
      <3>2. CASE p = Tui
        BY <1>0, <2>6, <3>2, Move DEF EndRun, Return, Goto, EngagedPlaces
      <3>3. CASE p # Tui
        BY <1>0, <2>6, <3>1, <3>3, Move DEF EndRun, Goto
      <3>4. QED
        BY <3>2, <3>3
    <2>7. QED
      BY <1>2, <2>1, <2>2, <2>3, <2>4, <2>5, <2>6 DEF RunStep
  <1>3. ASSUME NEW c \in Clis, CliStep(c) \/ Killed(c) PROVE LockInv'
    <2>0. c \in Procs
      BY DEF Procs
    <2>1. CASE RunStep(c)
      BY <2>0, <2>1, <1>2
    <2>2. ASSUME NEW code, Exit(c, code) PROVE LockInv'
      BY <1>0, <2>0, <2>2, Move DEF Exit, Goto, EngagedPlaces
    <2>3. CASE WriteLedger(c) \/ Judge(c) \/ Killed(c)
      BY <2>2, <2>3 DEF WriteLedger, Judge, Killed
    <2>4. CASE Prepare(c)
      BY <1>0, <2>0, <2>2, <2>4, Move DEF Prepare, Goto, EngagedPlaces
    <2>5. CASE WriteReports(c)
      BY <1>0, <2>0, <2>2, <2>5, Move DEF WriteReports, Goto, Engaged
    <2>6. CASE Record(c)
      BY <1>0, <2>0, <2>2, <2>6, Move DEF Record, Goto, Engaged
    <2>7. CASE LoadLedger(c) \/ TruncateLedger(c)
      BY <1>0, <2>0, <2>7, Move DEF LoadLedger, TruncateLedger, Goto, Engaged
    <2>8. QED
      BY <1>3, <2>1, <2>3, <2>4, <2>5, <2>6, <2>7 DEF CliStep
  <1>4. CASE TuiStep
    <2>0. Tui \in Procs
      BY DEF Procs
    <2>1. CASE RunStep(Tui)
      BY <2>0, <2>1, <1>2
    <2>2. CASE HandleDone
      BY <1>0, <2>0, <2>2, Move DEF HandleDone, Goto, EngagedPlaces
    <2>3. CASE Quit
      BY <1>0, <2>0, <2>3, Move DEF Quit, Goto, EngagedPlaces
    <2>4. CASE ReDiscover \/ DeleteSelected \/ SubmitForm \/ CancelKey \/ BackKey
      BY <1>0, <2>4, Stay DEF ReDiscover, DeleteSelected, SubmitForm, CancelKey, BackKey, Touch,
                              running
    <2>5. ASSUME NEW t, NEW d, Launch(t, d) PROVE LockInv'
      BY <1>0, <2>0, <2>5, Move DEF Launch, Goto, EngagedPlaces
    <2>6. CASE LaunchRun \/ StartRunAll
      BY <2>5, <2>6 DEF LaunchRun, StartRunAll
    <2>7. QED
      BY <1>4, <2>1, <2>2, <2>3, <2>4, <2>6 DEF TuiStep
  <1>5. QED
    BY <1>1, <1>3, <1>4 DEF Next

(* Appending to a sequence keeps its members and adds one.                 *)
LEMMA AppendKeeps ==
  ASSUME NEW S, NEW s \in Seq(S), NEW e
  PROVE  /\ Append(s, e) \in Seq(S \cup {e})
         /\ DOMAIN Append(s, e) = 1..(Len(s) + 1)
         /\ \A i \in DOMAIN Append(s, e) :
              Append(s, e)[i] = e \/ (i \in DOMAIN s /\ Append(s, e)[i] = s[i])
  <1> DEFINE T == S \cup {e}
  <1>1. s \in Seq(T)
    BY SMT
  <1>2. e \in T
    OBVIOUS
  <1> HIDE DEF T
  <1>3. Append(s, e) \in Seq(T) /\ Len(Append(s, e)) = Len(s) + 1
    BY <1>1, <1>2, AppendProperties
  <1>4. DOMAIN Append(s, e) = 1..(Len(s) + 1) /\ DOMAIN s = 1..Len(s) /\ Len(s) \in Nat
    BY <1>1, <1>3, LenProperties
  <1>5. \A i \in 1..Len(s) : Append(s, e)[i] = s[i]
    BY <1>1, <1>2, AppendProperties
  <1>6. Append(s, e)[Len(s) + 1] = e
    BY <1>1, <1>2, AppendProperties
  <1>7. \A i \in 1..(Len(s) + 1) : i \in 1..Len(s) \/ i = Len(s) + 1
    BY <1>4
  <1>8. QED
    BY <1>3, <1>4, <1>5, <1>6, <1>7 DEF T

LEMMA ResultOwnsFindings ==
  ASSUME NEW n, NEW o PROVE OwnFindings(ScenarioResult(n, o))
  <1> DEFINE fs == ScenarioResult(n, o).findings
  <1>1. ScenarioResult(n, o).name = n
    BY DEF ScenarioResult
  <1>2. fs = <<>> \/ fs = <<Finding(n, o.gap)>>
    BY DEF ScenarioResult
  <1>3. Finding(n, o.gap).scenario = n /\ Finding(n, o.gap).nowPasses \in BOOLEAN
    BY DEF Finding
  <1> HIDE DEF fs
  <1>4. fs \in Seq(Members(fs)) /\ \A f \in Members(fs) : f.scenario = n /\ f.nowPasses \in BOOLEAN
    <2>1. CASE fs = <<>>
      BY <2>1 DEF Members
    <2>2. CASE fs = <<Finding(n, o.gap)>>
      <3> DEFINE g == Finding(n, o.gap)
      <3>1. Members(fs) = {g}
        BY <2>2 DEF Members
      <3> HIDE DEF g
      <3>2. <<g>> \in Seq({g})
        OBVIOUS
      <3>3. QED
        BY <1>3, <2>2, <3>1, <3>2 DEF g
    <2>3. QED
      BY <1>2, <2>1, <2>2
  <1>5. QED
    BY <1>1, <1>4 DEF OwnFindings, fs

LEMMA AddResultKeeps ==
  ASSUME IInv, NEW p \in Procs, NEW n, NEW o, AddResult(p, ScenarioResult(n, o))
  PROVE  ResInv'
  <1> DEFINE r == ScenarioResult(n, o)
             s == res[p].scenarios
  <1>1. OwnFindings(r)
    BY ResultOwnsFindings
  <1>2. res'[p].scenarios = Append(s, r)
    BY DEF IInv, Frames, AddResult
  <1>3. \A q \in Procs : q # p => res'[q] = res[q]
    BY DEF IInv, Frames, AddResult
  <1>4. PICK S : s \in Seq(S)
    BY DEF IInv, ResInv
  <1>5. \A i \in DOMAIN s : OwnFindings(s[i])
    BY DEF IInv, ResInv
  <1> HIDE DEF r, s
  <1>6. /\ \E T : Append(s, r) \in Seq(T)
        /\ \A i \in DOMAIN Append(s, r) : OwnFindings(Append(s, r)[i])
    <2>1. /\ Append(s, r) \in Seq(S \cup {r})
          /\ \A i \in DOMAIN Append(s, r) :
               Append(s, r)[i] = r \/ (i \in DOMAIN s /\ Append(s, r)[i] = s[i])
      BY <1>4, AppendKeeps
    <2>2. QED
      BY <1>1, <1>5, <2>1
  <1>7. ASSUME NEW q \in Procs
        PROVE  /\ \E T : res'[q].scenarios \in Seq(T)
               /\ \A i \in DOMAIN res'[q].scenarios : OwnFindings(res'[q].scenarios[i])
    <2>1. CASE q = p
      BY <1>2, <1>6, <2>1
    <2>2. CASE q # p
      BY <1>3, <2>2 DEF IInv, ResInv
    <2>3. QED
      BY <2>1, <2>2
  <1>8. QED
    BY <1>7 DEF ResInv, OwnFindings, Members

(* A result is emptied.                                                    *)
LEMMA ResetKeeps ==
  ASSUME IInv, NEW p \in Procs, NEW r, r.scenarios = <<>>, res' = [res EXCEPT ![p] = r]
  PROVE  ResInv'
  <1>1. ASSUME NEW q \in Procs
        PROVE  /\ \E T : res'[q].scenarios \in Seq(T)
               /\ \A i \in DOMAIN res'[q].scenarios : OwnFindings(res'[q].scenarios[i])
    <2>1. CASE q = p
      <3>1. res'[q].scenarios = <<>>
        BY <2>1 DEF IInv, Frames
      <3>2. <<>> \in Seq({}) /\ DOMAIN <<>> = {}
        OBVIOUS
      <3>3. QED
        BY <3>1, <3>2
    <2>2. CASE q # p
      <3>1. res'[q] = res[q]
        BY <2>2 DEF IInv, Frames
      <3>2. QED
        BY <3>1 DEF IInv, ResInv
    <2>3. QED
      BY <2>1, <2>2
  <1>2. QED
    BY <1>1 DEF ResInv, OwnFindings, Members

LEMMA ResSame == ASSUME IInv, res' = res PROVE ResInv'
  BY DEF IInv, ResInv

LEMMA ExitResets == ASSUME IInv, NEW c \in Clis, NEW code, Exit(c, code) PROVE ResInv'
  BY ResetKeeps DEF Exit, NoRun, Procs

LEMMA ResStep == IInv /\ [Next]_vars => ResInv'
  <1> SUFFICES ASSUME IInv, [Next]_vars PROVE ResInv'
    OBVIOUS
  <1>1. CASE UNCHANGED vars
    BY <1>1, ResSame DEF vars
  <1>2. ASSUME NEW p \in Procs, RunStep(p) PROVE ResInv'
    <2>0. p # Tui => p \in Clis
      BY DEF Procs
    <2>1. CASE LockRun(p)
      BY <2>1, ResSame DEF LockRun, memory
    <2>2. CASE Refused(p)
      BY <2>0, <2>2, ResetKeeps, ExitResets DEF Refused, Return, NoRun
    <2>3. CASE Select(p)
      <3>1. CASE Return(NoRun) /\ p = Tui
        BY <3>1, ResetKeeps DEF Return, NoRun
      <3>2. CASE Exit(p, 64) /\ p # Tui
        BY <2>0, <3>2, ExitResets
      <3>3. CASE res' = [res EXCEPT ![p] = [start |-> clock', scenarios |-> <<>>]]
        BY <3>3, ResetKeeps
      <3>4. QED
        BY <2>3, <3>1, <3>2, <3>3 DEF Select
    <2>4. CASE BeginScenario(p)
      BY <2>4, ResSame, AddResultKeeps DEF BeginScenario
    <2>5. CASE EndScenario(p)
      BY <2>5, AddResultKeeps DEF EndScenario
    <2>6. CASE EndRun(p)
      <3>1. res' = res \/ res' = [res EXCEPT ![Tui] = res[Tui]]
        BY <2>6 DEF EndRun, Return
      <3>2. res' = res
        BY <3>1 DEF IInv, Frames
      <3>3. QED
        BY <3>2, ResSame
    <2>7. QED
      BY <1>2, <2>1, <2>2, <2>3, <2>4, <2>5, <2>6 DEF RunStep
  <1>3. ASSUME NEW c \in Clis, CliStep(c) \/ Killed(c) PROVE ResInv'
    <2>1. CASE RunStep(c)
      BY <2>1, <1>2 DEF Procs
    <2>2. CASE WriteLedger(c) \/ Judge(c) \/ Killed(c)
      BY <2>2, ExitResets DEF WriteLedger, Judge, Killed
    <2>3. CASE Prepare(c) \/ WriteReports(c) \/ Record(c)
      BY <2>3, ExitResets, ResSame DEF Prepare, WriteReports, Record, memory
    <2>4. CASE LoadLedger(c) \/ TruncateLedger(c)
      BY <2>4, ResSame DEF LoadLedger, TruncateLedger, memory
    <2>5. QED
      BY <1>3, <2>1, <2>2, <2>3, <2>4 DEF CliStep
  <1>4. CASE TuiStep
    <2>1. CASE RunStep(Tui)
      BY <2>1, <1>2 DEF Procs
    <2>2. CASE BackKey \/ Quit
      BY <2>2, ResetKeeps DEF BackKey, Quit, NoRun, Procs
    <2>3. CASE HandleDone \/ ReDiscover \/ DeleteSelected \/ SubmitForm \/ CancelKey
      BY <2>3, ResSame DEF HandleDone, ReDiscover, DeleteSelected, SubmitForm, CancelKey, Touch,
                           running, memory
    <2>4. CASE LaunchRun \/ StartRunAll
      BY <2>4, ResSame DEF LaunchRun, StartRunAll, Launch, memory
    <2>5. QED
      BY <1>4, <2>1, <2>2, <2>3, <2>4 DEF TuiStep
  <1>5. QED
    BY <1>1, <1>3, <1>4 DEF Next

-----------------------------------------------------------------------------
(* The ledger.                                                             *)

LedgerInv == AckedInv /\ LoadedInv /\ NoLostAcknowledgement

LEMMA LedgerSame ==
  ASSUME IInv, UNCHANGED <<pc, got, ledger, acked, torn>>
  PROVE  LedgerInv'
  BY DEF IInv, LedgerInv, AckedInv, LoadedInv, NoLostAcknowledgement, Acknowledgements

(* A move that has nothing to do with the ledger.                          *)
LEMMA LedgerElsewhere ==
  ASSUME IInv, NEW p \in Procs, NEW l, l \notin {"update", "judge", "writing"},
         pc[p] = "writing" => p \notin Clis, pc' = [pc EXCEPT ![p] = l],
         got' = got \/ got' = [got EXCEPT ![p] = NoLedger],
         UNCHANGED <<ledger, acked, torn>>
  PROVE  LedgerInv'
  <1>1. pc'[p] = l
    BY DEF IInv, Frames
  <1>2. \A c \in Clis : c # p => pc'[c] = pc[c] /\ got'[c] = got[c]
    BY DEF IInv, Frames, Procs
  <1>3. LoadedInv'
    BY <1>1, <1>2 DEF IInv, LoadedInv, Acknowledgements
  <1>4. \A c \in Clis : pc[c] = "writing" => pc'[c] = "writing"
    BY <1>2
  <1>5. NoLostAcknowledgement'
    BY <1>4 DEF IInv, NoLostAcknowledgement
  <1>6. AckedInv'
    BY DEF IInv, AckedInv
  <1>7. QED
    BY <1>3, <1>5, <1>6 DEF LedgerInv

(* Only one invocation is at its ledger at a time.                         *)
LEMMA AloneAtLedger ==
  ASSUME IInv, NEW c \in Clis, NEW d \in Clis,
         pc[c] \in {"ledger", "update", "writing", "judge"},
         pc[d] \in {"ledger", "update", "writing", "judge"}
  PROVE  c = d
  BY DEF IInv, LockInv, Engaged, Procs

LEMMA LoadKeeps == ASSUME IInv, NEW c \in Clis, LoadLedger(c) PROVE LedgerInv'
  <1> USE DEF IInv, Frames, LoadLedger
  <1>1. /\ got'[c] = ledger' /\ (pc'[c] = IF Opts[c].update THEN "update" ELSE "judge")
        /\ \A d \in Clis : d # c => pc'[d] = pc[d] /\ got'[d] = got[d]
    BY DEF disk, Goto, Procs
  <1>2. UNCHANGED <<ledger, acked, torn>> /\ pc[c] = "ledger"
    BY DEF disk, ghosts
  <1>3. LoadedInv'
    <2>1. Acknowledgements' = Acknowledgements
      BY <1>2 DEF Acknowledgements
    <2>2. \A d \in Clis : d # c => (pc'[d] \in {"update", "judge"} => got'[d] = ledger')
      BY <1>1, <1>2 DEF LoadedInv
    <2>3. \A d \in Clis : pc'[d] \in {"update", "writing"} => Opts[d].update
      BY <1>1, <1>2 DEF LoadedInv
    <2>4. \A d \in Clis : pc'[d] = "writing" => torn' \/ got'[d].entries = Acknowledgements'
      BY <1>1, <1>2, <2>1 DEF LoadedInv
    <2>5. QED
      BY <1>1, <2>2, <2>3, <2>4 DEF LoadedInv
  <1>4. NoLostAcknowledgement'
    BY SMTT(20), <1>1, <1>2 DEF NoLostAcknowledgement
  <1>5. AckedInv'
    BY <1>2 DEF AckedInv
  <1>6. QED
    BY <1>3, <1>4, <1>5 DEF LedgerInv

LEMMA TruncateKeeps == ASSUME IInv, NEW c \in Clis, TruncateLedger(c) PROVE LedgerInv'
  <1>1. /\ pc[c] = "update" /\ pc'[c] = "writing" /\ got' = got /\ UNCHANGED <<acked, torn>>
        /\ \A d \in Clis : d # c => pc'[d] = pc[d]
    BY DEF IInv, Frames, TruncateLedger, Goto, memory, ghosts, Procs
  <1>2. got[c] = ledger /\ Opts[c].update
    BY <1>1 DEF IInv, LoadedInv
  <1>3. \A d \in Clis : pc[d] # "writing"
    BY <1>1, AloneAtLedger
  <1>4. torn \/ got[c].entries = Acknowledgements
    BY <1>2, <1>3 DEF IInv, NoLostAcknowledgement, Acknowledgements
  <1>5. \A d \in Clis : d # c => pc[d] \notin {"update", "judge", "writing"}
    BY <1>1, AloneAtLedger
  <1>6. LoadedInv'
    BY <1>1, <1>2, <1>4, <1>5 DEF LoadedInv, Acknowledgements
  <1>7. NoLostAcknowledgement'
    BY <1>1 DEF NoLostAcknowledgement
  <1>8. AckedInv'
    BY <1>1 DEF IInv, AckedInv
  <1>9. QED
    BY <1>6, <1>7, <1>8 DEF LedgerInv

(* What a run observed belongs to the scenarios it ran.                    *)
LEMMA ObservedIsOwn ==
  ASSUME IInv, NEW p \in Procs, NEW e \in FromObserved(Observed(p))
  PROVE  e.scenario \in Ran(p)
  <1>1. PICK f \in Observed(p) : e = [id |-> f.id, scenario |-> f.scenario]
    BY DEF FromObserved
  <1>2. PICK i \in DOMAIN res[p].scenarios : f \in Members(res[p].scenarios[i].findings)
    BY DEF Observed, Members
  <1>3. f.scenario = res[p].scenarios[i].name
    BY <1>2 DEF IInv, ResInv, OwnFindings
  <1>4. QED
    BY <1>1, <1>3 DEF Ran

LEMMA WriteKeeps == ASSUME IInv, NEW c \in Clis, WriteLedger(c) PROVE LedgerInv'
  <1> DEFINE new == FromObserved(Observed(c))
  <1>1. /\ pc[c] = "writing" /\ pc'[c] = "done" /\ torn' = torn
        /\ \A d \in Clis : d # c => pc'[d] = pc[d] /\ got'[d] = got[d]
    BY DEF IInv, Frames, WriteLedger, Exit, Goto, Procs
  <1>2. \A d \in Clis : d # c => pc[d] \notin {"update", "judge", "writing"}
    BY <1>1, AloneAtLedger
  <1>3. LoadedInv'
    BY <1>1, <1>2 DEF LoadedInv
  <1>4. ledger'.entries = {e \in got[c].entries : e.scenario \notin Ran(c)} \cup new
    BY DEF WriteLedger, Merge
  <1>5. /\ DOMAIN acked' = DOMAIN acked \cup Ran(c)
        /\ \A n \in DOMAIN acked' :
             acked'[n].entries = IF n \in Ran(c) THEN {e \in new : e.scenario = n}
                                                  ELSE acked[n].entries
    BY DEF WriteLedger
  <1>6. torn \/ got[c].entries = Acknowledgements
    BY <1>1 DEF IInv, LoadedInv
  <1>7. \A e \in new : e.scenario \in Ran(c)
    BY ObservedIsOwn DEF Procs
  <1>8. \A n \in DOMAIN acked : \A e \in acked[n].entries : e.scenario = n
    BY DEF IInv, AckedInv
  <1> HIDE DEF new
  <1>9. AckedInv'
    BY <1>5, <1>8 DEF AckedInv
  <1>10. ASSUME ~torn PROVE ledger'.entries = Acknowledgements'
    <2>1. \A e : e \in ledger'.entries
                 <=> e \in new \/ (e.scenario \notin Ran(c) /\ \E n \in DOMAIN acked : e \in acked[n].entries)
      BY <1>4, <1>6, <1>10 DEF Acknowledgements
    <2>2. \A e : e \in Acknowledgements' <=> \E n \in DOMAIN acked' : e \in acked'[n].entries
      BY DEF Acknowledgements
    <2>3. ASSUME NEW e, e \in ledger'.entries PROVE \E n \in DOMAIN acked' : e \in acked'[n].entries
      BY <1>5, <1>7, <1>8, <2>1, <2>3
    <2>4. ASSUME NEW n \in DOMAIN acked', NEW e \in acked'[n].entries PROVE e \in ledger'.entries
      BY <1>5, <1>8, <2>1
    <2>5. QED
      BY <2>2, <2>3, <2>4
  <1>11. NoLostAcknowledgement'
    BY <1>1, <1>10 DEF NoLostAcknowledgement, Acknowledgements
  <1>12. QED
    BY <1>3, <1>9, <1>11 DEF LedgerInv

LEMMA ExitKeeps ==
  ASSUME IInv, NEW c \in Clis, NEW code, Exit(c, code), pc[c] # "writing",
         UNCHANGED <<ledger, acked, torn>>
  PROVE  LedgerInv'
  BY LedgerElsewhere DEF Exit, Goto, Procs

LEMMA KilledKeeps == ASSUME IInv, NEW c \in Clis, Killed(c) PROVE LedgerInv'
  <1>1. UNCHANGED <<ledger, acked>> /\ Exit(c, 2)
    BY DEF Killed, disk
  <1>2. CASE pc[c] = "writing"
    <2>1. /\ torn' /\ pc'[c] = "done"
          /\ \A d \in Clis : d # c => pc'[d] = pc[d] /\ got'[d] = got[d]
      BY <1>1, <1>2 DEF IInv, Frames, Killed, Exit, Goto, Procs
    <2>2. QED
      BY <1>1, <2>1 DEF IInv, AckedInv, LoadedInv, LedgerInv, NoLostAcknowledgement
  <1>3. CASE pc[c] # "writing"
    <2>1. torn' = torn
      BY <1>3 DEF Killed, IInv, Frames
    <2>2. QED
      BY <1>1, <1>3, <2>1, ExitKeeps
  <1>4. QED
    BY <1>2, <1>3

LEMMA LedgerStep == IInv /\ [Next]_vars => LedgerInv'
  <1> SUFFICES ASSUME IInv, [Next]_vars PROVE LedgerInv'
    OBVIOUS
  <1>1. CASE UNCHANGED vars
    BY <1>1, LedgerSame DEF vars
  <1>2. ASSUME NEW p \in Procs, RunStep(p) PROVE LedgerInv'
    <2>0. (p # Tui => p \in Clis) /\ Tui \in Procs
      BY DEF Procs
    <2>1. CASE LockRun(p)
      BY <2>1, LedgerElsewhere DEF LockRun, Goto, memory, disk, ghosts
    <2>2. CASE Refused(p)
      BY <2>0, <2>2, LedgerElsewhere, ExitKeeps DEF Refused, Return, Goto, disk, ghosts
    <2>3. CASE Select(p)
      <3>1. CASE p = Tui /\ Return(NoRun) /\ UNCHANGED got
        BY <2>3, <3>1, LedgerElsewhere DEF Select, Return, Goto, disk, ghosts
      <3>2. CASE p # Tui /\ Exit(p, 64)
        BY <2>0, <2>3, <3>2, ExitKeeps DEF Select, disk, ghosts
      <3>3. CASE Goto(p, "loop") /\ UNCHANGED got
        BY <2>3, <3>3, LedgerElsewhere DEF Select, Goto, disk, ghosts
      <3>4. QED
        BY <2>3, <3>1, <3>2, <3>3 DEF Select
    <2>4. CASE BeginScenario(p)
      BY <2>4, LedgerElsewhere, LedgerSame DEF BeginScenario, Goto, disk, ghosts
    <2>5. CASE EndScenario(p)
      BY <2>5, LedgerElsewhere DEF EndScenario, Goto, disk, ghosts
    <2>6. CASE EndRun(p)
      BY <2>0, <2>6, LedgerElsewhere DEF EndRun, Return, Goto, disk, ghosts
    <2>7. QED
      BY <1>2, <2>1, <2>2, <2>3, <2>4, <2>5, <2>6 DEF RunStep
  <1>3. ASSUME NEW c \in Clis, CliStep(c) \/ Killed(c) PROVE LedgerInv'
    <2>0. c \in Procs
      BY DEF Procs
    <2>1. CASE RunStep(c)
      BY <2>0, <2>1, <1>2
    <2>2. CASE Prepare(c)
      BY <2>0, <2>2, ExitKeeps, LedgerElsewhere DEF Prepare, Goto, disk, ghosts
    <2>3. CASE WriteReports(c)
      BY <2>0, <2>3, ExitKeeps, LedgerElsewhere DEF WriteReports, Goto, disk, ghosts, memory
    <2>4. CASE Record(c)
      BY <2>0, <2>4, ExitKeeps, LedgerElsewhere DEF Record, Goto, ghosts, memory
    <2>5. CASE Judge(c)
      BY <2>5, ExitKeeps DEF Judge, disk, ghosts
    <2>6. QED
      BY <1>3, <2>1, <2>2, <2>3, <2>4, <2>5, LoadKeeps, TruncateKeeps, WriteKeeps, KilledKeeps
         DEF CliStep
  <1>4. CASE TuiStep
    <2>0. Tui \in Procs
      BY DEF Procs
    <2>1. CASE RunStep(Tui)
      BY <2>0, <2>1, <1>2
    <2>2. CASE HandleDone
      BY <2>0, <2>2, LedgerElsewhere DEF HandleDone, Goto, memory, ghosts
    <2>3. CASE Quit
      BY <2>0, <2>3, LedgerElsewhere, ProcsAssumption DEF Quit, Goto, disk, ghosts
    <2>4. CASE ReDiscover \/ DeleteSelected \/ SubmitForm \/ CancelKey \/ BackKey
      BY <2>4, LedgerSame DEF ReDiscover, DeleteSelected, SubmitForm, CancelKey, BackKey, Touch,
                              running, memory, disk, ghosts
    <2>5. ASSUME NEW t, NEW d, Launch(t, d) PROVE LedgerInv'
      BY <2>0, <2>5, LedgerElsewhere, ProcsAssumption DEF Launch, Goto, memory, disk, ghosts
    <2>6. CASE LaunchRun \/ StartRunAll
      BY <2>5, <2>6 DEF LaunchRun, StartRunAll
    <2>7. QED
      BY <1>4, <2>1, <2>2, <2>3, <2>4, <2>6 DEF TuiStep
  <1>5. QED
    BY <1>1, <1>3, <1>4 DEF Next

-----------------------------------------------------------------------------
(* The initial states, and the theorems.                                   *)

LEMMA InitInv == Init => IInv
  <1> SUFFICES ASSUME Init PROVE IInv
    OBVIOUS
  <1> USE DEF Init
  <1>1. Frames
    BY DEF Frames
  <1>2. LockInv
    BY ProcsAssumption DEF LockInv, Engaged, Procs
  <1>3. ResInv
    <2>1. \A p \in Procs : res[p].scenarios = <<>>
      BY DEF NoRun
    <2>2. <<>> \in Seq({}) /\ DOMAIN <<>> = {}
      OBVIOUS
    <2>3. QED
      BY <2>1, <2>2 DEF ResInv
  <1>4. LoadedInv
    BY ProcsAssumption DEF LoadedInv, Procs
  <1>5. AckedInv /\ NoLostAcknowledgement
    <2>1. ASSUME NEW n, NEW e \in Acknowledgement(n) PROVE e.scenario = n
      <3>1. Finding(n, "active").scenario = n
        BY DEF Finding
      <3>2. PICK f \in {Finding(n, "active")} : e = [id |-> f.id, scenario |-> f.scenario]
        BY DEF Acknowledgement, FromObserved
      <3>3. QED
        BY <3>1, <3>2
    <2>2. DOMAIN acked = Acknowledged /\ \A n \in Acknowledged : acked[n].entries = Acknowledgement(n)
      OBVIOUS
    <2>3. AckedInv
      BY <2>1, <2>2 DEF AckedInv
    <2>4. ledger.entries = UNION {acked[n].entries : n \in DOMAIN acked}
      BY <2>2
    <2>5. QED
      BY <2>3, <2>4 DEF NoLostAcknowledgement
  <1>6. QED
    BY <1>1, <1>2, <1>3, <1>4, <1>5 DEF IInv

LEMMA Inductive == IInv /\ [Next]_vars => IInv'
  BY FramesStep, LockStep, ResStep, LedgerStep DEF IInv, LedgerInv

THEOREM Invariance == Spec => []IInv
  BY InitInv, Inductive, PTL DEF Spec

(* Whatever the number of processes, no two of them are between the        *)
(* selection of their scenarios and their last artefact (lockRun,          *)
(* cmdRun and runLocked).                                                  *)
THEOREM OneRun == Spec => []OneRunAtATime
  <1>1. IInv => OneRunAtATime
    BY LockExcludes DEF IInv
  <1>2. QED
    BY <1>1, Invariance, PTL

(* Every acknowledgement `run -u` has written is in the ledger, unless an  *)
(* invocation died in the rewrite: golden.Merge under the lock.            *)
THEOREM AcknowledgementsKept == Spec => []NoLostAcknowledgement
  <1>1. IInv => NoLostAcknowledgement
    BY DEF IInv
  <1>2. QED
    BY <1>1, Invariance, PTL

-----------------------------------------------------------------------------
(* The drift.                                                              *)

(* Reconcile finds nothing only if the entries of the scenarios that ran   *)
(* are the active findings of the run.                                     *)
LEMMA ReconcileIsExact ==
  ASSUME NEW g, NEW observed, NEW ran, NEW want \in Wants(g),
         UniqueIds(g \cup FromObserved(observed)),
         \A e \in FromObserved(observed) : e.scenario \in ran,
         Empty(Reconcile(want, observed, ran))
  PROVE  FromObserved(observed) = {e \in g : e.scenario \in ran}
  <1> DEFINE active == FromObserved(observed)
  <1>1. \A e \in active : e.id \in DOMAIN want
    BY DEF Empty, Reconcile
  <1>2. \A id \in DOMAIN want \ Ids(active) : want[id].scenario \notin ran
    BY DEF Empty, Reconcile
  <1>3. DOMAIN want = Ids(g) /\ \A id \in Ids(g) : want[id] \in g /\ want[id].id = id
    BY DEF Wants
  <1>4. \A d, e \in g \cup active : d.id = e.id => d = e
    BY DEF UniqueIds
  <1>5. \A e \in active : e.scenario \in ran
    OBVIOUS
  <1> HIDE DEF active
  <1>6. ASSUME NEW e \in active PROVE e \in g
    <2>1. PICK d \in g : d.id = e.id
      BY <1>1, <1>3 DEF Ids
    <2>2. QED
      BY <1>4, <2>1
  <1>7. ASSUME NEW e \in g, e.scenario \in ran PROVE e \in active
    <2>1. e.id \in Ids(g)
      BY DEF Ids
    <2>2. want[e.id] = e
      BY <1>3, <1>4, <2>1
    <2>3. e.id \in Ids(active)
      BY <1>2, <1>3, <1>7, <2>1, <2>2
    <2>4. PICK d \in active : d.id = e.id
      BY <2>3 DEF Ids
    <2>5. QED
      BY <1>4, <2>4
  <1>8. active = {e \in g : e.scenario \in ran}
    BY <1>5, <1>6, <1>7
  <1>9. QED
    BY <1>8 DEF active

Undrifted(c) ==
  /\ pc[c] # "done" /\ pc'[c] = "done" /\ exit'[c] = 0
  /\ ~Opts[c].update /\ res[c].scenarios # <<>>
  /\ ledger.exists /\ UniqueIds(ledger.entries \cup FromObserved(Observed(c)))
  => FromObserved(Observed(c)) = {e \in ledger.entries : e.scenario \in Ran(c)}

LEMMA JudgeStep ==
  ASSUME IInv, NEW c \in Clis, Judge(c), exit'[c] = 0, ledger.exists,
         UniqueIds(ledger.entries \cup FromObserved(Observed(c)))
  PROVE  FromObserved(Observed(c)) = {e \in ledger.entries : e.scenario \in Ran(c)}
  <1>1. got[c] = ledger
    BY DEF IInv, LoadedInv, Judge
  <1>2. PICK want \in Wants(ledger.entries) :
          Exit(c, ExitWith(ExitCode(Verdict(res[c])),
                           ledger.exists /\ ~Empty(Reconcile(want, Observed(c), Ran(c)))))
    BY <1>1 DEF Judge
  <1>3. ExitWith(ExitCode(Verdict(res[c])),
                 ledger.exists /\ ~Empty(Reconcile(want, Observed(c), Ran(c)))) = 0
    BY <1>2 DEF Exit, IInv, Frames
  <1>4. Empty(Reconcile(want, Observed(c), Ran(c)))
    BY <1>3 DEF ExitWith
  <1>5. \A e \in FromObserved(Observed(c)) : e.scenario \in Ran(c)
    BY ObservedIsOwn DEF Procs
  <1>6. QED
    BY <1>4, <1>5, ReconcileIsExact

LEMMA DriftStep == IInv /\ [Next]_vars => \A c \in Clis : Undrifted(c)
  <1> SUFFICES ASSUME IInv, [Next]_vars, NEW c \in Clis,
                      pc[c] # "done", pc'[c] = "done", exit'[c] = 0,
                      ~Opts[c].update, res[c].scenarios # <<>>,
                      ledger.exists, UniqueIds(ledger.entries \cup FromObserved(Observed(c)))
               PROVE  FromObserved(Observed(c)) = {e \in ledger.entries : e.scenario \in Ran(c)}
    BY DEF Undrifted
  <1>1. Judge(c)
    <2>1. \A d \in Procs : d # c /\ (\E l : Goto(d, l)) => FALSE
      BY DEF IInv, Frames, Goto, Procs
    <2>2. ~UNCHANGED vars /\ ~UNCHANGED pc
      BY DEF vars
    <2>3. PICK p \in Procs : (p \in Clis /\ (CliStep(p) \/ Killed(p))) \/ (p = Tui /\ TuiStep)
      BY <2>2 DEF Next, Procs
    <2>4. p = c
      <3>1. SUFFICES ASSUME p # c PROVE FALSE
        OBVIOUS
      <3>2. \E l : Goto(p, l)
        <4>1. CASE RunStep(p)
          BY <2>2, <4>1 DEF RunStep, LockRun, Refused, Select, BeginScenario, EndScenario, EndRun,
                            Return, Exit
        <4>2. CASE p \in Clis /\ (CliStep(p) \/ Killed(p))
          BY <4>1, <4>2 DEF CliStep, Prepare, WriteReports, Record, LoadLedger, TruncateLedger,
                            WriteLedger, Judge, Killed, Exit
        <4>3. CASE p = Tui /\ TuiStep
          BY <2>2, <4>1, <4>3 DEF TuiStep, HandleDone, ReDiscover, DeleteSelected, SubmitForm,
               LaunchRun, StartRunAll, Launch, CancelKey, BackKey, Quit, Touch, running
        <4>4. QED
          BY <2>3, <4>2, <4>3
      <3>3. QED
        BY <2>1, <3>1, <3>2
    <2>5. c # Tui
      BY ProcsAssumption
    <2>6. ASSUME NEW code, Exit(c, code) PROVE code = 0
      BY <2>6 DEF Exit, IInv, Frames
    <2>7. ASSUME NEW l, Goto(c, l) PROVE l = "done"
      BY <2>7 DEF Goto, IInv, Frames, Procs
    <2>8. ~RunStep(c)
      BY <2>2, <2>5, <2>6, <2>7 DEF RunStep, LockRun, Refused, Select, BeginScenario, EndScenario, EndRun
    <2>9. ~WriteLedger(c)
      BY DEF WriteLedger, IInv, LoadedInv
    <2>10. ~Killed(c) /\ ~Prepare(c) /\ ~WriteReports(c) /\ ~Record(c)
      BY <2>6, <2>7 DEF Killed, Prepare, WriteReports, Record
    <2>11. ~LoadLedger(c) /\ ~TruncateLedger(c)
      BY <2>7 DEF LoadLedger, TruncateLedger
    <2>12. QED
      BY <2>3, <2>4, <2>5, <2>8, <2>9, <2>10, <2>11 DEF CliStep
  <1>2. QED
    BY <1>1, JudgeStep

(* A check of a project never exits 0 over a drift between what it         *)
(* observed and what the ledger holds at that moment (cmdRun, Reconcile).  *)
THEOREM DriftIsReported == Spec => DriftNeverMissed
  <1>1. IInv /\ [Next]_vars => [\A c \in Clis : Undrifted(c)]_vars
    BY DriftStep
  <1>2. QED
    BY <1>1, Invariance, PTL DEF Spec, DriftNeverMissed, Undrifted

-----------------------------------------------------------------------------
(* The least-number principle, from the well-ordering of Nat.              *)
LEMMA LeastNumber ==
  ASSUME NEW T \in SUBSET Nat, T # {}
  PROVE  \E m \in T : \A k \in T : m <= k
  <1> DEFINE R == OpToRel(<, Nat)
  <1>1. IsWellFoundedOn(R, Nat)
    BY NatLessThanWellFounded
  <1>2. \A x, y \in Nat : x < y => <<x, y>> \in R
    BY DEF OpToRel
  <1> HIDE DEF R
  <1>3. PICK m \in T : \A k \in T : <<k, m>> \notin R
    BY <1>1, WFMin
  <1>4. \A k \in T : ~ k < m
    BY <1>2, <1>3
  <1>5. \A k \in T : k \in Nat /\ m \in Nat
    OBVIOUS
  <1>6. QED
    BY <1>4, <1>5

(* Induction, for the set of the numbers that have a property.             *)
LEMMA SetInduction ==
  ASSUME NEW T, 0 \in T, \A n \in Nat : n \in T => n + 1 \in T
  PROVE  Nat \subseteq T
  <1> SUFFICES ASSUME Nat \ T # {} PROVE FALSE
    OBVIOUS
  <1>1. PICK m \in Nat \ T : \A k \in Nat \ T : m <= k
    BY LeastNumber
  <1>2. m - 1 \in Nat /\ m - 1 \in T /\ (m - 1) + 1 = m
    BY <1>1
  <1>3. QED
    BY <1>1, <1>2

-----------------------------------------------------------------------------
(* The findings of a record are those of its scenarios.                    *)

(* f is the table of the concatenations of the first 1, 2, ..., n.         *)
IsFlat(f, ss, n) == f = [i \in 1..n |-> IF i = 1 THEN ss[i] ELSE f[i - 1] \o ss[i]]

LEMMA FlatExists ==
  ASSUME NEW ss, NEW L \in Nat \ {0}
  PROVE  \E f : IsFlat(f, ss, L)
  <1> DEFINE T == {n \in Nat : n = 0 \/ \E f : IsFlat(f, ss, n)}
  <1>1. 0 \in T
    OBVIOUS
  <1>2. ASSUME NEW n \in Nat, n \in T PROVE n + 1 \in T
    <2>1. CASE n = 0
      <3>1. IsFlat([i \in 1..1 |-> ss[1]], ss, 1)
        BY DEF IsFlat
      <3>2. QED
        BY <2>1, <3>1
    <2>2. CASE n # 0
      <3>1. PICK f : IsFlat(f, ss, n)
        BY <1>2, <2>2
      <3>2. \A i \in 1..n : f[i] = IF i = 1 THEN ss[i] ELSE f[i - 1] \o ss[i]
        BY <3>1 DEF IsFlat
      <3> DEFINE g == [i \in 1..(n + 1) |-> IF i = n + 1 THEN f[n] \o ss[i] ELSE f[i]]
      <3>a. n + 1 \in 1..(n + 1) /\ \A i \in 1..n : i \in 1..(n + 1) /\ i # n + 1
        OBVIOUS
      <3>3. g[n + 1] = f[n] \o ss[n + 1] /\ \A i \in 1..n : g[i] = f[i]
        BY <3>a, Zenon
      <3>4. g = [i \in 1..(n + 1) |-> g[i]]
        OBVIOUS
      <3> HIDE DEF g
      <3>5. ASSUME NEW i \in 1..(n + 1)
            PROVE  g[i] = IF i = 1 THEN ss[i] ELSE g[i - 1] \o ss[i]
        <4>1. CASE i = n + 1
          <5>1. i - 1 = n /\ i # 1 /\ n \in 1..n
            BY <2>2, <4>1
          <5>2. QED
            BY <3>3, <4>1, <5>1
        <4>2. CASE i = 1 /\ i # n + 1
          <5>1. i \in 1..n
            BY <4>2
          <5>2. QED
            BY <3>2, <3>3, <4>2, <5>1
        <4>3. CASE i # 1 /\ i # n + 1
          <5>1. i \in 1..n /\ i - 1 \in 1..n
            BY <4>3
          <5>2. QED
            BY <3>2, <3>3, <4>3, <5>1
        <4>4. QED
          BY <4>1, <4>2, <4>3
      <3>6. IsFlat(g, ss, n + 1)
        BY <3>4, <3>5 DEF IsFlat
      <3>7. QED
        BY <3>6
    <2>3. QED
      BY <2>1, <2>2
  <1>3. Nat \subseteq T
    <2> HIDE DEF T
    <2>1. QED
      BY <1>1, <1>2, SetInduction
  <1>4. QED
    BY <1>3

LEMMA MembersConcat ==
  ASSUME NEW S, NEW a \in Seq(S), NEW b \in Seq(S)
  PROVE  a \o b \in Seq(S) /\ Members(a \o b) = Members(a) \cup Members(b)
  <1>1. /\ a \o b \in Seq(S) /\ Len(a \o b) = Len(a) + Len(b)
        /\ \A i \in 1..(Len(a) + Len(b)) : (a \o b)[i] = IF i <= Len(a) THEN a[i] ELSE b[i - Len(a)]
    BY ConcatProperties
  <1>2. /\ Len(a) \in Nat /\ Len(b) \in Nat /\ DOMAIN a = 1..Len(a) /\ DOMAIN b = 1..Len(b)
        /\ DOMAIN (a \o b) = 1..(Len(a) + Len(b))
    BY <1>1, LenProperties
  <1> DEFINE c == a \o b
             m == Len(a)
             n == Len(b)
  <1>3. /\ m \in Nat /\ n \in Nat /\ DOMAIN a = 1..m /\ DOMAIN b = 1..n /\ DOMAIN c = 1..(m + n)
        /\ \A i \in 1..(m + n) : c[i] = IF i <= m THEN a[i] ELSE b[i - m]
    BY <1>1, <1>2
  <1> HIDE DEF c, m, n
  <1>4. ASSUME NEW x \in Members(c) PROVE x \in Members(a) \cup Members(b)
    <2>1. PICK i \in 1..(m + n) : x = c[i]
      BY <1>3 DEF Members
    <2>2. CASE i <= m
      BY <1>3, <2>1, <2>2 DEF Members
    <2>3. CASE i > m
      <3>1. i - m \in 1..n /\ x = b[i - m]
        BY <1>3, <2>1, <2>3
      <3>2. QED
        BY <1>3, <3>1 DEF Members
    <2>4. QED
      BY <1>3, <2>2, <2>3
  <1>5. ASSUME NEW x \in Members(a) PROVE x \in Members(c)
    <2>1. PICK i \in 1..m : x = a[i]
      BY <1>3 DEF Members
    <2>2. i \in 1..(m + n) /\ c[i] = x
      BY <1>3, <2>1
    <2>3. QED
      BY <1>3, <2>2 DEF Members
  <1>6. ASSUME NEW x \in Members(b) PROVE x \in Members(c)
    <2>1. PICK i \in 1..n : x = b[i]
      BY <1>3 DEF Members
    <2>2. m + i \in 1..(m + n) /\ ~(m + i <= m) /\ (m + i) - m = i
      BY <1>3
    <2>3. c[m + i] = x
      BY <1>3, <2>1, <2>2
    <2>4. QED
      BY <1>3, <2>2, <2>3 DEF Members
  <1>7. Members(c) = Members(a) \cup Members(b)
    BY <1>4, <1>5, <1>6
  <1>8. QED
    BY <1>1, <1>7 DEF c

LEMMA MembersOfFlat ==
  ASSUME NEW S, NEW ss \in Seq(Seq(S))
  PROVE  Members(FlattenSeq(ss)) = UNION {Members(ss[i]) : i \in DOMAIN ss}
  <1> DEFINE n == Len(ss)
  <1>1. n \in Nat /\ DOMAIN ss = 1..n /\ \A i \in 1..n : ss[i] \in Seq(S)
    BY LenProperties, ElementOfSeq
  <1>2. CASE n = 0
    <2>1. FlattenSeq(ss) = ss /\ DOMAIN ss = {}
      BY <1>1, <1>2 DEF FlattenSeq
    <2>2. QED
      BY <2>1 DEF Members
  <1>3. CASE n # 0
    <2>1. PICK f : IsFlat(f, ss, n) /\ FlattenSeq(ss) = f[n]
      <3>1. \E f : IsFlat(f, ss, n)
        BY <1>1, <1>3, FlatExists
      <3>2. QED
        BY <1>3, <3>1 DEF IsFlat, FlattenSeq
    <2> HIDE DEF n
    <2>2. \A i \in 1..n : f[i] = IF i = 1 THEN ss[i] ELSE f[i - 1] \o ss[i]
      BY <2>1 DEF IsFlat
    <2> DEFINE upTo(k) == UNION {Members(ss[i]) : i \in 1..k}
               ok(k) == f[k] \in Seq(S) /\ Members(f[k]) = upTo(k)
               T == {k \in Nat : k + 1 \in 1..n => ok(k + 1)}
    <2>3. 0 \in T
      <3>1. 1 \in 1..n => f[1] = ss[1] /\ upTo(1) = Members(ss[1])
        BY <2>2
      <3>2. QED
        BY <1>1, <3>1
    <2>4. ASSUME NEW k \in Nat, k \in T PROVE k + 1 \in T
      <3>1. SUFFICES ASSUME k + 2 \in 1..n PROVE ok(k + 2)
        <4> HIDE DEF ok
        <4>1. (k + 1) + 1 = k + 2
          OBVIOUS
        <4>2. QED
          BY <4>1
      <3>2. k + 1 \in 1..n /\ (k + 2) - 1 = k + 1 /\ k + 2 # 1
        BY <1>1, <3>1
      <3>3. f[k + 1] \in Seq(S) /\ Members(f[k + 1]) = upTo(k + 1) /\ ss[k + 2] \in Seq(S)
        BY <1>1, <2>4, <3>1, <3>2
      <3>4. f[k + 2] = f[k + 1] \o ss[k + 2]
        BY <2>2, <3>1, <3>2
      <3>5. upTo(k + 2) = upTo(k + 1) \cup Members(ss[k + 2])
        <4>1. 1..(k + 2) = 1..(k + 1) \cup {k + 2}
          OBVIOUS
        <4>2. QED
          BY <4>1
      <3> HIDE DEF upTo
      <3> DEFINE a == f[k + 1]
                 b == ss[k + 2]
      <3>6. a \in Seq(S) /\ b \in Seq(S)
        BY <3>3
      <3>7. a \o b \in Seq(S) /\ Members(a \o b) = Members(a) \cup Members(b)
        <4> HIDE DEF a, b
        <4>1. QED
          BY <3>6, MembersConcat
      <3>8. QED
        BY <3>3, <3>4, <3>5, <3>7
    <2>5. Nat \subseteq T
      <3> HIDE DEF T
      <3>1. QED
        BY <2>3, <2>4, SetInduction
    <2>6. ok(n)
      <3>1. n - 1 \in Nat /\ (n - 1) + 1 = n /\ n \in 1..n
        BY <1>1, <1>3 DEF n
      <3> HIDE DEF ok
      <3>2. (n - 1) + 1 \in 1..n => ok((n - 1) + 1)
        BY <2>5, <3>1
      <3>3. QED
        BY <3>1, <3>2
    <2> HIDE DEF T
    <2>7. Members(f[n]) = upTo(n)
      BY <2>6
    <2>8. QED
      BY <1>1, <2>1, <2>7
  <1>4. QED
    BY <1>2, <1>3

-----------------------------------------------------------------------------
(* The history.  A start time stands for one run: no two processes hold    *)
(* the same, and none is given out again.                                  *)

(* The places in which a run goes on, and those after which it may still   *)
(* be recorded.                                                            *)
Running == {"loop", "scenario", "ran", "record"}
Making == Running \cup {"sent"}

StartInv ==
  /\ clock \in Nat
  /\ \A p \in Procs :
       /\ res[p].start \in 0..clock
       /\ res[p].start = 0 => res[p].scenarios = <<>>
       /\ pc[p] \in Running => res[p].start # 0
  /\ \A p, q \in Procs : res[p].start = res[q].start /\ res[p].start # 0 => p = q

RecordOf(r) ==
  [time |-> r.start, verdict |-> Verdict(r),
   scenarios |-> [i \in DOMAIN r.scenarios |-> r.scenarios[i].name],
   findings |-> FlattenSeq([i \in DOMAIN r.scenarios |-> r.scenarios[i].findings])]

(* A record is of a run that is over for its process, and of one it has    *)
(* not replaced: as that run went.                                         *)
OfRun(record, p) ==
  record.time # 0 /\ record.time = res[p].start =>
    pc[p] \notin Making /\ record = RecordOf(res[p])

OwnRecord(record) ==
  /\ record.time = 0 => record.scenarios = <<>>
  /\ \A f \in Members(record.findings) :
       f.scenario \in Members(record.scenarios) /\ f.nowPasses \in BOOLEAN

HistoryInv ==
  /\ \E S : history \in Seq(S)
  /\ \A i \in DOMAIN history :
       /\ history[i].time \in 0..clock /\ OwnRecord(history[i])
       /\ \A p \in Procs : OfRun(history[i], p)
  /\ \A i, j \in DOMAIN history :
       history[i].time = history[j].time /\ history[i].time # 0 => i = j

(* What `run -u` has acknowledged comes from a run that is over, and is    *)
(* what the record of that run says, if there is one.                      *)
AsRecorded(n, record) ==
  acked[n].time # 0 /\ acked[n].time = record.time =>
    acked[n].entries = {e \in FromObserved(Members(record.findings)) : e.scenario = n}

AckTimeInv ==
  \A n \in DOMAIN acked :
    /\ acked[n].time \in 0..clock
    /\ \A p \in Procs : acked[n].time # 0 => acked[n].time # res[p].start
    /\ \A i \in DOMAIN history : AsRecorded(n, history[i])

(* The run view is open from the launch until it is closed, and done when  *)
(* the run's goroutine has returned; a dry run that is done is in no       *)
(* record.                                                                 *)
ViewInv ==
  /\ view = [open |-> view.open, targets |-> view.targets, dry |-> view.dry,
             cancelled |-> view.cancelled, done |-> view.done]
  /\ view.open \in BOOLEAN /\ view.dry \in BOOLEAN /\ view.done \in BOOLEAN
  /\ pc[Tui] \in {"idle", "gone"} => (view.open => view.done)
  /\ pc[Tui] \notin {"idle", "gone"} => view.open /\ ~view.done
  /\ view.open /\ view.dry /\ view.done =>
       \A i \in DOMAIN history : history[i].time # 0 => history[i].time # res[Tui].start

RunsInv == StartInv /\ HistoryInv /\ AckTimeInv

(* A process of which only the place changes.                              *)
LEMMA RunsStay ==
  ASSUME IInv, RunsInv, UNCHANGED <<res, history, clock, acked>>,
         \A q \in Procs : pc'[q] = pc[q] \/ (pc'[q] \in Making => pc[q] \in Running \/ (pc'[q] = "sent" /\ res[q].start = 0))
  PROVE  RunsInv'
  <1>1. StartInv'
    <2>1. \A q \in Procs : pc'[q] \in Running => pc[q] \in Running
      BY DEF Running, Making
    <2>2. QED
      BY <2>1 DEF RunsInv, StartInv
  <1>2. HistoryInv'
    <2>1. ASSUME NEW i \in DOMAIN history, NEW q \in Procs PROVE OfRun(history[i], q)'
      <3>1. OfRun(history[i], q)
        BY DEF RunsInv, HistoryInv
      <3>2. history[i].time # 0 /\ history[i].time = res[q].start => pc'[q] \notin Making
        BY <3>1 DEF OfRun, Making
      <3>3. QED
        BY <3>1, <3>2 DEF OfRun, RecordOf, Verdict
    <2>2. QED
      BY <2>1 DEF RunsInv, HistoryInv, OwnRecord
  <1>3. AckTimeInv'
    BY DEF RunsInv, AckTimeInv, AsRecorded
  <1>4. QED
    BY <1>1, <1>2, <1>3 DEF RunsInv

(* The result of one process is replaced, by one that has not been         *)
(* recorded.                                                               *)
Unrecorded(p, r) ==
  r.start # 0 =>
    /\ \A q \in Procs \ {p} : res[q].start # r.start
    /\ \A i \in DOMAIN history : history[i].time # r.start

LEMMA RunsReplace ==
  ASSUME IInv, RunsInv, NEW p \in Procs, NEW r, res' = [res EXCEPT ![p] = r],
         clock' \in Nat, clock <= clock', history' = history,
         r.start \in 0..clock', r.start = 0 => r.scenarios = <<>>, Unrecorded(p, r),
         \A q \in Procs \ {p} : pc'[q] = pc[q],
         pc'[p] \in Running => r.start # 0
  PROVE  StartInv' /\ HistoryInv'
  <1>1. res'[p] = r /\ \A q \in Procs \ {p} : res'[q] = res[q]
    BY DEF IInv, Frames
  <1>2. \A t \in 0..clock : t \in 0..clock'
    BY DEF RunsInv, StartInv
  <1>3. StartInv'
    <2>1. ASSUME NEW q \in Procs
          PROVE  /\ res'[q].start \in 0..clock'
                 /\ res'[q].start = 0 => res'[q].scenarios = <<>>
                 /\ pc'[q] \in Running => res'[q].start # 0
      BY <1>1, <1>2 DEF RunsInv, StartInv
    <2>2. ASSUME NEW a \in Procs, NEW b \in Procs, res'[a].start = res'[b].start, res'[a].start # 0
          PROVE  a = b
      BY <1>1, <2>2 DEF RunsInv, StartInv, Unrecorded
    <2>3. QED
      BY <2>1, <2>2 DEF StartInv
  <1>4. HistoryInv'
    <2>1. ASSUME NEW i \in DOMAIN history, NEW q \in Procs PROVE OfRun(history[i], q)'
      <3>1. CASE q = p
        <4>1. r.start # 0 => history[i].time # r.start
          BY DEF Unrecorded
        <4>2. res'[q].start = r.start
          BY <1>1, <3>1
        <4>3. ~(history'[i].time # 0 /\ history'[i].time = res'[q].start)
          BY <4>1, <4>2
        <4>4. QED
          BY <4>3 DEF OfRun
      <3>2. CASE q # p
        <4>1. RecordOf(res[q])' = RecordOf(res'[q])
          BY DEF RecordOf, Verdict
        <4>2. res'[q] = res[q] /\ pc'[q] = pc[q]
          BY <1>1, <3>2
        <4>3. RecordOf(res'[q]) = RecordOf(res[q])
          BY <4>2
        <4>4. OfRun(history[i], q)
          BY DEF RunsInv, HistoryInv
        <4>5. QED
          BY <4>1, <4>2, <4>3, <4>4 DEF OfRun
      <3>3. QED
        BY <3>1, <3>2
    <2>2. \A i \in DOMAIN history : history[i].time \in 0..clock'
      BY <1>2 DEF RunsInv, HistoryInv
    <2>3. QED
      BY <2>1, <2>2 DEF RunsInv, HistoryInv, OwnRecord
  <1>5. QED
    BY <1>3, <1>4

(* ... and of which nothing has been acknowledged.                         *)
LEMMA RunsReplaceAll ==
  ASSUME IInv, RunsInv, NEW p \in Procs, NEW r, res' = [res EXCEPT ![p] = r],
         clock' \in Nat, clock <= clock', history' = history, acked' = acked,
         r.start \in 0..clock', r.start = 0 => r.scenarios = <<>>, Unrecorded(p, r),
         \A q \in Procs \ {p} : pc'[q] = pc[q],
         pc'[p] \in Running => r.start # 0,
         r.start # 0 => \A n \in DOMAIN acked : acked[n].time # r.start
  PROVE  RunsInv'
  <1>1. StartInv' /\ HistoryInv'
    BY RunsReplace
  <1>2. res'[p] = r /\ \A q \in Procs \ {p} : res'[q] = res[q]
    BY DEF IInv, Frames
  <1>3. AckTimeInv'
    <2>1. ASSUME NEW n \in DOMAIN acked
          PROVE  /\ acked[n].time \in 0..clock'
                 /\ \A q \in Procs : acked[n].time # 0 => acked[n].time # res'[q].start
      BY <1>2 DEF RunsInv, AckTimeInv, StartInv
    <2>2. ASSUME NEW n \in DOMAIN acked, NEW i \in DOMAIN history PROVE AsRecorded(n, history[i])'
      BY DEF RunsInv, AckTimeInv, AsRecorded
    <2>3. QED
      BY <2>1, <2>2 DEF AckTimeInv
  <1>4. QED
    BY <1>1, <1>3 DEF RunsInv

(* A run's record.                                                         *)
LEMMA RecordIs ==
  ASSUME IInv, NEW p \in Procs
  PROVE  /\ RecordOf(res[p]).time = res[p].start
         /\ Members(RecordOf(res[p]).findings) = Observed(p)
         /\ Members(RecordOf(res[p]).scenarios) = Ran(p)
         /\ res[p].scenarios = <<>> => RecordOf(res[p]).scenarios = <<>>
         /\ \A f \in Observed(p) : f.scenario \in Ran(p) /\ f.nowPasses \in BOOLEAN
  <1> DEFINE scs == res[p].scenarios
             rec == RecordOf(res[p])
             fs == [i \in DOMAIN scs |-> scs[i].findings]
             names == [i \in DOMAIN scs |-> scs[i].name]
  <1>1. rec.time = res[p].start /\ rec.findings = FlattenSeq(fs) /\ rec.scenarios = names
    BY DEF RecordOf
  <1>2. /\ \E S : scs \in Seq(S)
        /\ \A i \in DOMAIN scs : OwnFindings(scs[i])
    BY DEF IInv, ResInv
  <1>3. /\ Observed(p) = UNION {Members(sc.findings) : sc \in Members(scs)}
        /\ Ran(p) = {scs[i].name : i \in DOMAIN scs}
    BY DEF Observed, Ran
  <1> HIDE DEF scs, rec
  <1>4. Members(rec.scenarios) = Ran(p) /\ (scs = <<>> => rec.scenarios = <<>>)
    <2>1. DOMAIN names = DOMAIN scs /\ \A i \in DOMAIN scs : names[i] = scs[i].name
      OBVIOUS
    <2>2. Members(names) = Ran(p)
      BY <1>3, <2>1 DEF Members
    <2>3. scs = <<>> => names = <<>>
      OBVIOUS
    <2>4. QED
      BY <1>1, <2>2, <2>3
  <1>5. Members(rec.findings) = Observed(p)
    <2> DEFINE F == Observed(p)
    <2>1. DOMAIN fs = DOMAIN scs /\ \A i \in DOMAIN scs : fs[i] = scs[i].findings
      OBVIOUS
    <2>2. F = UNION {Members(fs[i]) : i \in DOMAIN fs}
      BY <1>3, <2>1 DEF Members
    <2> HIDE DEF F
    <2>3. \A i \in DOMAIN scs : fs[i] \in Seq(F)
      <3>1. SUFFICES ASSUME NEW i \in DOMAIN scs PROVE fs[i] \in Seq(F)
        OBVIOUS
      <3>2. fs[i] \in Seq(Members(fs[i]))
        BY <1>2, <2>1 DEF OwnFindings
      <3>3. Members(fs[i]) \subseteq F
        BY <2>1, <2>2
      <3> HIDE DEF fs
      <3>4. QED
        BY <3>2, <3>3
    <2>4. fs \in Seq(Seq(F))
      <3>1. PICK S : scs \in Seq(S)
        BY <1>2
      <3>2. DOMAIN scs = 1..Len(scs) /\ Len(scs) \in Nat
        BY <3>1, LenProperties
      <3>3. fs \in [1..Len(scs) -> Seq(F)]
        BY <2>3, <3>2
      <3> HIDE DEF fs
      <3>4. QED
        BY <3>2, <3>3
    <2> HIDE DEF fs
    <2>5. Members(FlattenSeq(fs)) = UNION {Members(fs[i]) : i \in DOMAIN fs}
      BY <2>4, MembersOfFlat
    <2>6. QED
      BY <1>1, <2>2, <2>5 DEF F
  <1>6. ASSUME NEW f \in Observed(p) PROVE f.scenario \in Ran(p) /\ f.nowPasses \in BOOLEAN
    <2>1. PICK i \in DOMAIN scs : f \in Members(scs[i].findings)
      BY <1>3 DEF Members
    <2>2. QED
      BY <1>2, <1>3, <2>1 DEF OwnFindings
  <1>7. QED
    BY <1>1, <1>4, <1>5, <1>6 DEF scs, rec

(* A process has come to the end of a run and appends its record.          *)
LEMMA RunsAppend ==
  ASSUME IInv, RunsInv, NEW p \in Procs, pc[p] \in Making, pc'[p] \notin Making,
         history' = Append(history, RecordOf(res[p])), UNCHANGED <<res, clock, acked>>,
         \A q \in Procs \ {p} : pc'[q] = pc[q]
  PROVE  RunsInv'
  <1> DEFINE new == RecordOf(res[p])
  <1>1. /\ new.time = res[p].start /\ OwnRecord(new)
        /\ \A i \in DOMAIN history : new.time # 0 => history[i].time # new.time
        /\ \A n \in DOMAIN acked : new.time # 0 => acked[n].time # new.time
    <2>1. new.time = res[p].start
      BY RecordIs
    <2>2. OwnRecord(new)
      BY RecordIs DEF OwnRecord, RunsInv, StartInv
    <2>3. ASSUME NEW i \in DOMAIN history, new.time # 0 PROVE history[i].time # new.time
      <3>1. OfRun(history[i], p)
        BY DEF RunsInv, HistoryInv
      <3> HIDE DEF new
      <3>2. QED
        BY <2>1, <2>3, <3>1 DEF OfRun
    <2>4. ASSUME NEW n \in DOMAIN acked, new.time # 0 PROVE acked[n].time # new.time
      <3> HIDE DEF new
      <3>1. QED
        BY <2>1, <2>4 DEF RunsInv, AckTimeInv
    <2>5. QED
      BY <2>1, <2>2, <2>3, <2>4
  <1>2. PICK S : history \in Seq(S)
    BY DEF RunsInv, HistoryInv
  <1>3. \A q \in Procs : OfRun(new, q)'
    <2>1. SUFFICES ASSUME NEW q \in Procs, res[p].start # 0, res[p].start = res[q].start
                   PROVE  pc'[q] \notin Making /\ new' = RecordOf(res[q])'
      BY <1>1 DEF OfRun, RecordOf, Verdict
    <2>2. q = p
      BY <2>1 DEF RunsInv, StartInv
    <2>3. QED
      BY <2>2 DEF RecordOf, Verdict
  <1>4. new' = new
    BY DEF RecordOf, Verdict
  <1> HIDE DEF new
  <1>5. /\ history' \in Seq(S \cup {new})
        /\ DOMAIN history' = 1..(Len(history) + 1)
        /\ \A i \in DOMAIN history' :
             history'[i] = new \/ (i \in DOMAIN history /\ history'[i] = history[i])
    BY <1>2, AppendKeeps DEF new
  <1>6. /\ Len(history) \in Nat /\ DOMAIN history = 1..Len(history)
        /\ \A i \in DOMAIN history : history'[i] = history[i]
    BY <1>2, AppendProperties DEF new
  <1>7. HistoryInv'
    <2>1. ASSUME NEW i \in DOMAIN history'
          PROVE  /\ history'[i].time \in 0..clock' /\ OwnRecord(history'[i])
                 /\ \A q \in Procs : OfRun(history[i], q)'
      <3>1. CASE history'[i] = new
        <4>1. new.time \in 0..clock'
          BY <1>1 DEF RunsInv, StartInv
        <4>2. \A q \in Procs : OfRun(history[i], q)'
          BY <1>3, <1>4, <3>1 DEF OfRun
        <4>3. QED
          BY <1>1, <3>1, <4>1, <4>2 DEF OwnRecord
      <3>2. CASE i \in DOMAIN history /\ history'[i] = history[i]
        <4>1. history[i].time \in 0..clock' /\ OwnRecord(history[i])
          BY <3>2 DEF RunsInv, HistoryInv
        <4>2. ASSUME NEW q \in Procs PROVE OfRun(history[i], q)'
          <5>1. OfRun(history[i], q)
            BY <3>2 DEF RunsInv, HistoryInv
          <5>2. pc[q] \notin Making => pc'[q] \notin Making
            OBVIOUS
          <5>3. QED
            BY <3>2, <5>1, <5>2 DEF OfRun, RecordOf, Verdict
        <4>3. QED
          BY <3>2, <4>1, <4>2 DEF OwnRecord
      <3>3. QED
        BY <1>5, <3>1, <3>2
    <2>2. ASSUME NEW i \in DOMAIN history', NEW j \in DOMAIN history',
                 history'[i].time = history'[j].time, history'[i].time # 0
          PROVE  i = j
      <3>1. \A k \in DOMAIN history' : k \in DOMAIN history \/ (k = Len(history) + 1 /\ history'[k] = new)
        BY <1>5, <1>6
      <3>2. QED
        BY <1>1, <1>6, <2>2, <3>1 DEF RunsInv, HistoryInv
    <2>3. QED
      BY <1>5, <2>1, <2>2 DEF HistoryInv, OwnRecord
  <1>8. AckTimeInv'
    <2>1. ASSUME NEW n \in DOMAIN acked, NEW i \in DOMAIN history' PROVE AsRecorded(n, history[i])'
      <3>1. CASE history'[i] = new
        BY <1>1, <3>1 DEF AsRecorded
      <3>2. CASE i \in DOMAIN history /\ history'[i] = history[i]
        BY <3>2 DEF RunsInv, AckTimeInv, AsRecorded
      <3>3. QED
        BY <1>5, <3>1, <3>2
    <2>2. QED
      BY <2>1 DEF RunsInv, AckTimeInv
  <1>9. StartInv'
    BY DEF RunsInv, StartInv, Running, Making
  <1>10. QED
    BY <1>7, <1>8, <1>9 DEF RunsInv

LEMMA RunsNoRun ==
  ASSUME IInv, RunsInv, NEW p \in Procs, res' = [res EXCEPT ![p] = NoRun],
         UNCHANGED <<clock, history, acked>>, \A q \in Procs \ {p} : pc'[q] = pc[q],
         pc'[p] \notin Running
  PROVE  RunsInv'
  <1>1. NoRun.start = 0 /\ NoRun.scenarios = <<>>
    BY DEF NoRun
  <1>2. clock' \in Nat /\ clock <= clock'
    BY DEF RunsInv, StartInv
  <1>3. NoRun.start \in 0..clock' /\ Unrecorded(p, NoRun)
    BY <1>1, <1>2 DEF Unrecorded
  <1>4. QED
    BY <1>1, <1>2, <1>3, RunsReplaceAll

LEMMA RunsExit ==
  ASSUME IInv, RunsInv, NEW c \in Clis, NEW code, Exit(c, code), UNCHANGED <<clock, history, acked>>
  PROVE  RunsInv'
  <1>1. c \in Procs /\ pc' = [pc EXCEPT ![c] = "done"] /\ res' = [res EXCEPT ![c] = NoRun]
    BY DEF Exit, Goto, Procs
  <1>2. pc'[c] \notin Running /\ \A q \in Procs \ {c} : pc'[q] = pc[q]
    BY <1>1 DEF IInv, Frames, Running
  <1>3. QED
    BY <1>1, <1>2, RunsNoRun

LEMMA RunsAdd ==
  ASSUME IInv, RunsInv, NEW p \in Procs, NEW r, AddResult(p, r), pc[p] \in Running,
         UNCHANGED <<clock, history, acked>>, \A q \in Procs \ {p} : pc'[q] = pc[q]
  PROVE  RunsInv'
  <1> DEFINE s == [start |-> res[p].start, scenarios |-> Append(res[p].scenarios, r)]
  <1>1. res' = [res EXCEPT ![p] = s]
    BY DEF AddResult
  <1>2. s.start = res[p].start
    OBVIOUS
  <1> HIDE DEF s
  <1>3. s.start # 0 /\ s.start \in 0..clock' /\ clock' \in Nat /\ clock <= clock'
    BY <1>2 DEF RunsInv, StartInv
  <1>4. Unrecorded(p, s)
    <2>1. \A q \in Procs \ {p} : res[q].start # s.start
      BY <1>2, <1>3 DEF RunsInv, StartInv
    <2>2. ASSUME NEW i \in DOMAIN history PROVE history[i].time # s.start
      <3>1. OfRun(history[i], p)
        BY DEF RunsInv, HistoryInv
      <3>2. QED
        BY <1>2, <1>3, <3>1 DEF OfRun, Making
    <2>3. QED
      BY <2>1, <2>2 DEF Unrecorded
  <1>5. \A n \in DOMAIN acked : acked[n].time # s.start
    BY <1>2, <1>3 DEF RunsInv, AckTimeInv
  <1>6. QED
    BY <1>1, <1>3, <1>4, <1>5, RunsReplaceAll

LEMMA RunsBegin ==
  ASSUME IInv, RunsInv, NEW p \in Procs, clock' = clock + 1,
         res' = [res EXCEPT ![p] = [start |-> clock', scenarios |-> <<>>]],
         UNCHANGED <<history, acked>>, \A q \in Procs \ {p} : pc'[q] = pc[q]
  PROVE  RunsInv'
  <1> DEFINE s == [start |-> clock', scenarios |-> <<>>]
  <1>1. res' = [res EXCEPT ![p] = s] /\ s.start = clock + 1 /\ s.scenarios = <<>>
    OBVIOUS
  <1> HIDE DEF s
  <1>2. s.start # 0 /\ s.start \in 0..clock' /\ clock' \in Nat /\ clock <= clock'
    BY <1>1 DEF RunsInv, StartInv
  <1>3. \A t \in 0..clock : t # s.start
    BY <1>1 DEF RunsInv, StartInv
  <1>4. Unrecorded(p, s)
    BY <1>3 DEF Unrecorded, RunsInv, StartInv, HistoryInv
  <1>5. \A n \in DOMAIN acked : acked[n].time # s.start
    BY <1>3 DEF RunsInv, AckTimeInv
  <1>6. QED
    BY <1>1, <1>2, <1>4, <1>5, RunsReplaceAll

(* `run -u` writes what it observed.                                       *)
LEMMA RunsWrite == ASSUME IInv, RunsInv, NEW c \in Clis, WriteLedger(c) PROVE RunsInv'
  <1>1. /\ c \in Procs /\ pc[c] = "writing" /\ history' = history /\ clock' = clock
        /\ pc' = [pc EXCEPT ![c] = "done"] /\ res' = [res EXCEPT ![c] = NoRun]
    BY DEF WriteLedger, Exit, Goto, Procs
  <1>2. /\ pc'[c] \notin Running /\ \A q \in Procs \ {c} : pc'[q] = pc[q]
        /\ res'[c] = NoRun /\ \A q \in Procs \ {c} : res'[q] = res[q]
    BY <1>1 DEF IInv, Frames, Running
  <1>3. NoRun.start = 0 /\ NoRun.scenarios = <<>>
    BY DEF NoRun
  <1>4. StartInv' /\ HistoryInv'
    <2>1. clock' \in Nat /\ clock <= clock'
      BY <1>1 DEF RunsInv, StartInv
    <2>2. NoRun.start \in 0..clock' /\ Unrecorded(c, NoRun)
      BY <1>3, <2>1 DEF Unrecorded
    <2>3. QED
      BY <1>1, <1>2, <1>3, <2>1, <2>2, RunsReplace
  <1>5. /\ DOMAIN acked' = DOMAIN acked \cup Ran(c)
        /\ \A n \in Ran(c) :
             /\ acked'[n].time = res[c].start
             /\ acked'[n].entries = {e \in FromObserved(Observed(c)) : e.scenario = n}
        /\ \A n \in DOMAIN acked \ Ran(c) : acked'[n] = acked[n]
    BY DEF WriteLedger
  <1>6. ASSUME NEW n \in DOMAIN acked'
        PROVE  /\ acked'[n].time \in 0..clock'
               /\ \A q \in Procs : acked'[n].time # 0 => acked'[n].time # res'[q].start
               /\ \A i \in DOMAIN history : AsRecorded(n, history[i])'
    <2>1. CASE n \in Ran(c)
      <3>1. acked'[n].time = res[c].start
        BY <1>5, <2>1
      <3>2. acked'[n].time \in 0..clock'
        BY <1>1, <3>1 DEF RunsInv, StartInv
      <3>3. ASSUME NEW q \in Procs, acked'[n].time # 0 PROVE acked'[n].time # res'[q].start
        <4>1. CASE q = c
          BY <1>2, <1>3, <3>3, <4>1
        <4>2. CASE q # c
          BY <1>1, <1>2, <3>1, <3>3, <4>2 DEF RunsInv, StartInv
        <4>3. QED
          BY <4>1, <4>2
      <3>4. ASSUME NEW i \in DOMAIN history, res[c].start # 0, res[c].start = history[i].time
            PROVE  Members(history[i].findings) = Observed(c)
        <4>1. OfRun(history[i], c)
          BY <1>1 DEF RunsInv, HistoryInv
        <4>2. history[i] = RecordOf(res[c])
          BY <3>4, <4>1 DEF OfRun
        <4>3. QED
          BY <1>1, <4>2, RecordIs
      <3>5. ASSUME NEW i \in DOMAIN history PROVE AsRecorded(n, history[i])'
        <4>1. acked'[n].entries = {e \in FromObserved(Observed(c)) : e.scenario = n}
          BY <1>5, <2>1
        <4>2. res[c].start # 0 /\ res[c].start = history[i].time =>
                Members(history[i].findings) = Observed(c)
          BY <3>4
        <4>3. acked'[n].time # 0 /\ acked'[n].time = history[i].time =>
                acked'[n].entries = {e \in FromObserved(Members(history[i].findings)) : e.scenario = n}
          BY <3>1, <4>1, <4>2
        <4>4. history'[i] = history[i]
          BY <1>1
        <4>5. QED
          BY <4>3, <4>4 DEF AsRecorded
      <3>6. QED
        BY <3>2, <3>3, <3>5
    <2>2. CASE n \notin Ran(c)
      <3>1. n \in DOMAIN acked /\ acked'[n] = acked[n]
        BY <1>5, <2>2
      <3>2. acked'[n].time \in 0..clock'
        BY <1>1, <3>1 DEF RunsInv, AckTimeInv
      <3>3. ASSUME NEW q \in Procs, acked'[n].time # 0 PROVE acked'[n].time # res'[q].start
        <4>1. CASE q = c
          BY <1>2, <1>3, <3>3, <4>1
        <4>2. CASE q # c
          BY <1>2, <3>1, <3>3, <4>2 DEF RunsInv, AckTimeInv
        <4>3. QED
          BY <4>1, <4>2
      <3>4. ASSUME NEW i \in DOMAIN history PROVE AsRecorded(n, history[i])'
        <4>1. AsRecorded(n, history[i])
          BY <3>1 DEF RunsInv, AckTimeInv
        <4>2. QED
          BY <1>1, <3>1, <4>1 DEF AsRecorded
      <3>5. QED
        BY <3>2, <3>3, <3>4
    <2>3. QED
      BY <2>1, <2>2
  <1>7. AckTimeInv'
    BY <1>1, <1>6 DEF AckTimeInv
  <1>8. QED
    BY <1>4, <1>7 DEF RunsInv

LEMMA RunsStep == IInv /\ ViewInv /\ RunsInv /\ [Next]_vars => RunsInv'
  <1> SUFFICES ASSUME IInv, ViewInv, RunsInv, [Next]_vars PROVE RunsInv'
    OBVIOUS
  <1>0. Tui \in Procs /\ Tui \notin Clis /\ \A p \in Procs : p # Tui => p \in Clis
    BY ProcsAssumption DEF Procs
  <1>m. ASSUME NEW p \in Procs, NEW l, Goto(p, l)
        PROVE  pc'[p] = l /\ \A q \in Procs \ {p} : pc'[q] = pc[q]
    BY <1>m DEF Goto, IInv, Frames
  <1>1. CASE UNCHANGED vars
    BY <1>1, RunsStay DEF vars
  <1>s. ASSUME NEW p \in Procs, NEW l, Goto(p, l), UNCHANGED <<res, history, clock, acked>>,
               l \in Making => pc[p] \in Running
        PROVE  RunsInv'
    BY <1>m, <1>s, RunsStay
  <1>r. ASSUME Return(NoRun), UNCHANGED <<clock, history, acked>> PROVE RunsInv'
    <2>1. Goto(Tui, "sent") /\ res' = [res EXCEPT ![Tui] = NoRun]
      BY <1>r DEF Return
    <2>2. pc'[Tui] = "sent" /\ \A q \in Procs \ {Tui} : pc'[q] = pc[q]
      BY <1>0, <2>1, <1>m
    <2>3. pc'[Tui] \notin Running
      BY <2>2 DEF Running
    <2>4. QED
      BY <1>0, <1>r, <2>1, <2>2, <2>3, RunsNoRun
  <1>2. ASSUME NEW p \in Procs, RunStep(p) PROVE RunsInv'
    <2>0. p # Tui => p \in Clis
      BY <1>0
    <2>1. CASE LockRun(p)
      BY <2>1, <1>s DEF LockRun, memory, disk, ghosts, Making, Running
    <2>2. CASE Refused(p)
      BY <2>0, <2>2, <1>r, RunsExit DEF Refused, disk, ghosts
    <2>3. CASE Select(p)
      <3>0. UNCHANGED <<history, acked>>
        BY <2>3 DEF Select, disk, ghosts
      <3>1. CASE Return(NoRun) /\ UNCHANGED clock
        BY <3>0, <3>1, <1>r
      <3>2. CASE Exit(p, 64) /\ p # Tui /\ UNCHANGED clock
        BY <2>0, <3>0, <3>2, RunsExit
      <3>3. CASE /\ res' = [res EXCEPT ![p] = [start |-> clock', scenarios |-> <<>>]]
                 /\ clock' = clock + 1 /\ Goto(p, "loop")
        BY <3>0, <3>3, <1>m, RunsBegin
      <3>4. QED
        BY <2>3, <3>1, <3>2, <3>3 DEF Select
    <2>4. CASE BeginScenario(p)
      <3>0. UNCHANGED <<clock, history, acked>> /\ pc[p] = "loop"
        BY <2>4 DEF BeginScenario, disk, ghosts
      <3>1. CASE Goto(p, "scenario") /\ UNCHANGED res
        BY <3>0, <3>1, <1>s DEF Running
      <3>2. CASE AddResult(p, ScenarioResult(Head(todo[p]).name, Errored)) /\ UNCHANGED pc
        BY <3>0, <3>2, RunsAdd DEF Running
      <3>3. QED
        BY <2>4, <3>1, <3>2 DEF BeginScenario
    <2>5. CASE EndScenario(p)
      <3>0. /\ UNCHANGED <<clock, history, acked>> /\ pc[p] = "scenario" /\ Goto(p, "loop")
            /\ \E o : AddResult(p, ScenarioResult(Head(todo[p]).name, o))
        BY <2>5 DEF EndScenario, disk, ghosts
      <3>1. QED
        BY <3>0, <1>m, RunsAdd DEF Running
    <2>6. CASE EndRun(p)
      <3>0. UNCHANGED <<clock, history, acked>> /\ pc[p] = "loop"
        BY <2>6 DEF EndRun, disk, ghosts
      <3>1. res' = res
        <4>1. res' = res \/ res' = [res EXCEPT ![Tui] = res[Tui]]
          BY <2>6 DEF EndRun, Return
        <4>2. QED
          BY <4>1 DEF IInv, Frames
      <3>2. \E l : Goto(p, l)
        BY <2>6 DEF EndRun, Return
      <3>3. QED
        BY <3>0, <3>1, <3>2, <1>s DEF Running
    <2>7. QED
      BY <1>2, <2>1, <2>2, <2>3, <2>4, <2>5, <2>6 DEF RunStep
  <1>3. ASSUME NEW c \in Clis, CliStep(c) \/ Killed(c) PROVE RunsInv'
    <2>0. c \in Procs
      BY DEF Procs
    <2>1. CASE RunStep(c)
      BY <2>0, <2>1, <1>2
    <2>2. CASE WriteLedger(c)
      BY <2>2, RunsWrite
    <2>3. CASE Judge(c) \/ Killed(c)
      BY <2>3, RunsExit DEF Judge, Killed, disk, ghosts
    <2>4. CASE Prepare(c)
      <3>1. UNCHANGED <<clock, history, acked>>
        BY <2>4 DEF Prepare, disk, ghosts
      <3>2. CASE Exit(c, 2)
        BY <3>1, <3>2, RunsExit
      <3>3. CASE Goto(c, "locking") /\ UNCHANGED res
        BY <2>0, <3>1, <3>3, <1>s DEF Making, Running
      <3>4. QED
        BY <2>4, <3>2, <3>3 DEF Prepare
    <2>5. CASE WriteReports(c)
      <3>1. UNCHANGED <<clock, history, acked>> /\ pc[c] = "ran"
        BY <2>5 DEF WriteReports, disk, ghosts
      <3>2. ASSUME NEW code, Exit(c, code) PROVE RunsInv'
        BY <3>1, <3>2, RunsExit
      <3>3. CASE Goto(c, "record") /\ UNCHANGED res
        BY <2>0, <3>1, <3>3, <1>s DEF Running
      <3>4. QED
        BY <2>5, <3>2, <3>3 DEF WriteReports, memory
    <2>6. CASE Record(c)
      <3>1. UNCHANGED <<clock, acked>> /\ pc[c] = "record"
        BY <2>6 DEF Record, ghosts
      <3>2. CASE Exit(c, 2) /\ UNCHANGED history
        BY <3>1, <3>2, RunsExit
      <3>3. CASE Goto(c, "ledger") /\ UNCHANGED res /\ UNCHANGED history
        BY <2>0, <3>1, <3>3, <1>s DEF Making, Running
      <3>4. CASE Goto(c, "ledger") /\ UNCHANGED res /\ history' = Append(history, HistoryRecord(c))
        <4>1. HistoryRecord(c) = RecordOf(res[c])
          BY DEF HistoryRecord, RecordOf
        <4>2. pc'[c] \notin Making /\ \A q \in Procs \ {c} : pc'[q] = pc[q]
          BY <2>0, <3>4, <1>m DEF Making, Running
        <4>3. pc[c] \in Making
          BY <3>1 DEF Making, Running
        <4>4. QED
          BY <2>0, <3>1, <3>4, <4>1, <4>2, <4>3, RunsAppend
      <3>5. QED
        BY <2>6, <3>2, <3>3, <3>4 DEF Record, memory
    <2>7. CASE LoadLedger(c) \/ TruncateLedger(c)
      BY <2>0, <2>7, <1>s DEF LoadLedger, TruncateLedger, memory, disk, ghosts, Making, Running
    <2>8. QED
      BY <1>3, <2>1, <2>2, <2>3, <2>4, <2>5, <2>6, <2>7 DEF CliStep
  <1>4. CASE TuiStep
    <2>1. CASE RunStep(Tui)
      BY <1>0, <2>1, <1>2
    <2>2. CASE HandleDone
      <3>1. UNCHANGED <<clock, res, acked>> /\ pc[Tui] = "sent" /\ Goto(Tui, "idle")
        BY <2>2 DEF HandleDone, memory, ghosts
      <3>2. CASE UNCHANGED history
        BY <1>0, <3>1, <3>2, <1>s DEF Making, Running
      <3>3. CASE history' = Append(history, HistoryRecord(Tui))
        <4>1. HistoryRecord(Tui) = RecordOf(res[Tui])
          BY DEF HistoryRecord, RecordOf
        <4>2. pc'[Tui] \notin Making /\ \A q \in Procs \ {Tui} : pc'[q] = pc[q]
          BY <1>0, <3>1, <1>m DEF Making, Running
        <4>3. pc[Tui] \in Making
          BY <3>1 DEF Making
        <4>4. QED
          BY <1>0, <3>1, <3>3, <4>1, <4>2, <4>3, RunsAppend
      <3>4. QED
        BY <2>2, <3>2, <3>3 DEF HandleDone
    <2>3. CASE BackKey
      <3>1. /\ UNCHANGED <<clock, history, acked, pc>> /\ res' = [res EXCEPT ![Tui] = NoRun]
            /\ view.open /\ view.done
        BY <2>3 DEF BackKey, disk, ghosts
      <3>2. pc'[Tui] \notin Running
        BY <3>1 DEF ViewInv, Running
      <3>3. QED
        BY <1>0, <3>1, <3>2, RunsNoRun
    <2>4. CASE Quit
      <3>1. /\ UNCHANGED <<clock, history, acked>> /\ res' = [res EXCEPT ![Tui] = NoRun]
            /\ Goto(Tui, "gone")
        BY <2>4 DEF Quit, disk, ghosts
      <3>2. pc'[Tui] = "gone" /\ \A q \in Procs \ {Tui} : pc'[q] = pc[q]
        BY <1>0, <3>1, <1>m
      <3>3. pc'[Tui] \notin Running
        BY <3>2 DEF Running
      <3>4. QED
        BY <1>0, <3>1, <3>2, <3>3, RunsNoRun
    <2>5. CASE ReDiscover \/ DeleteSelected \/ SubmitForm \/ CancelKey
      <3>1. UNCHANGED <<res, history, clock, acked, pc>>
        BY <2>5 DEF ReDiscover, DeleteSelected, SubmitForm, CancelKey, Touch, running, memory,
                    disk, ghosts
      <3>2. QED
        BY <3>1, RunsStay
    <2>6. ASSUME NEW t, NEW d, Launch(t, d) PROVE RunsInv'
      BY <1>0, <2>6, <1>s DEF Launch, memory, disk, ghosts, Making, Running
    <2>7. CASE LaunchRun \/ StartRunAll
      BY <2>6, <2>7 DEF LaunchRun, StartRunAll
    <2>8. QED
      BY <1>4, <2>1, <2>2, <2>3, <2>4, <2>5, <2>7 DEF TuiStep
  <1>5. QED
    BY <1>1, <1>3, <1>4 DEF Next

-----------------------------------------------------------------------------
(* The run view.                                                           *)

Recordless(h) == \A i \in DOMAIN h : h[i].time # 0 => h[i].time # res[Tui].start

ViewShape(v) ==
  /\ v = [open |-> v.open, targets |-> v.targets, dry |-> v.dry,
          cancelled |-> v.cancelled, done |-> v.done]
  /\ v.open \in BOOLEAN /\ v.dry \in BOOLEAN /\ v.done \in BOOLEAN

LEMMA ViewIs ==
  ViewInv <=> /\ ViewShape(view)
              /\ pc[Tui] \in {"idle", "gone"} => (view.open => view.done)
              /\ pc[Tui] \notin {"idle", "gone"} => view.open /\ ~view.done
              /\ view.open /\ view.dry /\ view.done => Recordless(history)
  BY DEF ViewInv, ViewShape, Recordless

(* Nothing of the run view changes.                                        *)
LEMMA ViewStays ==
  ASSUME ViewInv, view' = view, pc'[Tui] \in {"idle", "gone"} <=> pc[Tui] \in {"idle", "gone"},
         view.open /\ view.dry /\ view.done => (Recordless(history) => Recordless(history)')
  PROVE  ViewInv'
  BY ViewIs DEF ViewInv, Recordless

(* A step of an invocation.                                                *)
LEMMA ViewElsewhere ==
  ASSUME IInv, RunsInv, ViewInv, NEW c \in Clis, view' = view, pc'[Tui] = pc[Tui], res'[Tui] = res[Tui],
         history' = history \/ history' = Append(history, RecordOf(res[c]))
  PROVE  ViewInv'
  <1>1. ASSUME Recordless(history) PROVE Recordless(history)'
    <2>1. CASE history' = history
      BY <1>1, <2>1 DEF Recordless
    <2>2. CASE history' = Append(history, RecordOf(res[c]))
      <3> DEFINE new == RecordOf(res[c])
      <3>1. new.time = res[c].start
        BY RecordIs DEF Procs
      <3>2. new.time # 0 => new.time # res[Tui].start
        <4>1. c \in Procs /\ Tui \in Procs /\ c # Tui
          BY ProcsAssumption DEF Procs
        <4>2. res[c].start # 0 => res[c].start # res[Tui].start
          BY <4>1 DEF RunsInv, StartInv
        <4> HIDE DEF new
        <4>3. QED
          BY <3>1, <4>2
      <3> HIDE DEF new
      <3>3. PICK S : history \in Seq(S)
        BY DEF RunsInv, HistoryInv
      <3>4. \A i \in DOMAIN history' :
              history'[i] = new \/ (i \in DOMAIN history /\ history'[i] = history[i])
        BY <2>2, <3>3, AppendKeeps DEF new
      <3>5. QED
        BY <1>1, <3>2, <3>4 DEF Recordless
    <2>3. QED
      BY <2>1, <2>2
  <1>2. QED
    BY <1>1, ViewStays

LEMMA ViewStep == IInv /\ RunsInv /\ ViewInv /\ [Next]_vars => ViewInv'
  <1> SUFFICES ASSUME IInv, RunsInv, ViewInv, [Next]_vars PROVE ViewInv'
    OBVIOUS
  <1>0. Tui \in Procs /\ Tui \notin Clis /\ \A p \in Procs : p # Tui => p \in Clis
    BY ProcsAssumption DEF Procs
  <1>1. CASE UNCHANGED vars
    BY <1>1, ViewStays DEF vars, Recordless
  <1>g. ASSUME NEW p \in Procs, NEW l, Goto(p, l)
        PROVE  pc'[p] = l /\ \A q \in Procs \ {p} : pc'[q] = pc[q]
    BY <1>g DEF Goto, IInv, Frames
  <1>2. ASSUME NEW c \in Clis, CliStep(c) \/ Killed(c) PROVE ViewInv'
    <2>0. c \in Procs /\ c # Tui
      BY <1>0 DEF Procs
    <2>1. view' = view
      BY <2>0, <1>2 DEF CliStep, RunStep, LockRun, Refused, Select, BeginScenario, EndScenario, EndRun,
                Prepare, WriteReports, Record, LoadLedger, TruncateLedger, WriteLedger, Judge,
                Killed, screen
    <2>2. pc'[Tui] = pc[Tui]
      <3>1. pc' = pc \/ \E l : Goto(c, l)
        BY <2>0, <1>2 DEF CliStep, RunStep, LockRun, Refused, Select, BeginScenario, EndScenario, EndRun,
                  Prepare, WriteReports, Record, LoadLedger, TruncateLedger, WriteLedger, Judge,
                  Killed, Exit
      <3>2. QED
        BY <1>0, <2>0, <3>1, <1>g
    <2>3. res'[Tui] = res[Tui]
      <3>1. res' = res \/ \E r : res' = [res EXCEPT ![c] = r]
        BY <2>0, <1>2 DEF CliStep, RunStep, LockRun, Refused, Select, BeginScenario, EndScenario, EndRun,
                  Prepare, WriteReports, Record, LoadLedger, TruncateLedger, WriteLedger, Judge,
                  Killed, Exit, memory, AddResult
      <3>2. QED
        BY <1>0, <2>0, <3>1 DEF IInv, Frames
    <2>4. history' = history \/ history' = Append(history, HistoryRecord(c))
      BY <2>0, <1>2 DEF CliStep, RunStep, LockRun, Refused, Select, BeginScenario, EndScenario, EndRun,
                Prepare, WriteReports, Record, LoadLedger, TruncateLedger, WriteLedger, Judge,
                Killed, disk
    <2>5. HistoryRecord(c) = RecordOf(res[c])
      BY DEF HistoryRecord, RecordOf
    <2>6. QED
      BY <2>1, <2>2, <2>3, <2>4, <2>5, ViewElsewhere
  (* A run of the UI that goes on: the view is open, and not done.         *)
  <1>3. ASSUME RunStep(Tui) PROVE ViewInv'
    <2>1. view' = view
      BY <1>3 DEF RunStep, LockRun, Refused, Select, BeginScenario, EndScenario, EndRun, screen
    <2>2. pc[Tui] \in {"locking", "select", "loop", "scenario"}
      BY <1>3 DEF RunStep, LockRun, Refused, Select, BeginScenario, EndScenario, EndRun
    <2>3. pc' = pc \/ \E l \in {"select", "loop", "scenario", "sent"} : Goto(Tui, l)
      BY <1>3, <1>0 DEF RunStep, LockRun, Refused, Select, BeginScenario, EndScenario, EndRun, Return
    <2>4. pc'[Tui] \notin {"idle", "gone"}
      BY <1>0, <1>g, <2>2, <2>3
    <2>5. ~view.done
      BY <2>2 DEF ViewInv
    <2>6. QED
      BY <2>1, <2>2, <2>4, <2>5, ViewStays
  <1>4. CASE TuiStep
    <2>1. CASE HandleDone
      <3>1. /\ pc[Tui] = "sent" /\ Goto(Tui, "idle") /\ view' = [view EXCEPT !.done = TRUE]
            /\ res' = res /\ (view.dry => history' = history)
        BY <2>1 DEF HandleDone, Finished, Recorded, memory
      <3>2. pc'[Tui] = "idle"
        BY <1>0, <1>g, <3>1
      <3>3. ViewShape(view) /\ view.open
        BY <3>1, ViewIs
      <3>4. ViewShape(view)' /\ view'.done /\ view'.dry = view.dry
        BY <3>1, <3>3 DEF ViewShape
      <3>5. view'.open /\ view'.dry /\ view'.done => Recordless(history)'
        <4>1. SUFFICES ASSUME view.dry, NEW i \in DOMAIN history, history[i].time # 0
                       PROVE  history[i].time # res[Tui].start
          BY <3>1, <3>4 DEF Recordless
        <4>2. OfRun(history[i], Tui)
          BY <1>0 DEF RunsInv, HistoryInv
        <4>3. QED
          BY <3>1, <4>1, <4>2 DEF OfRun, Making
      <3>6. QED
        BY <3>2, <3>4, <3>5 DEF ViewInv, ViewShape, Recordless
    <2>2. CASE BackKey \/ Quit
      <3>1. view' = Closed
        BY <2>2 DEF BackKey, Quit
      <3>2. pc'[Tui] \in {"idle", "gone"}
        <4>1. CASE BackKey
          BY <4>1 DEF BackKey, ViewInv
        <4>2. CASE Quit
          BY <1>0, <4>2, <1>g DEF Quit
        <4>3. QED
          BY <2>2, <4>1, <4>2
      <3>3. ViewShape(view)' /\ ~view'.open
        BY <3>1 DEF ViewShape, Closed
      <3>4. QED
        BY <3>2, <3>3 DEF ViewInv, ViewShape
    <2>3. CASE ReDiscover \/ DeleteSelected \/ SubmitForm
      BY <2>3, ViewStays DEF ReDiscover, DeleteSelected, SubmitForm, Touch, running, disk, memory,
                             Recordless
    <2>4. CASE CancelKey
      <3>1. /\ view' = [view EXCEPT !.cancelled = TRUE] /\ UNCHANGED <<pc, history, res>>
            /\ ~view.done
        BY <2>4 DEF CancelKey, disk, running, memory
      <3>2. ViewShape(view)
        BY ViewIs
      <3>3. ViewShape(view)' /\ view'.open = view.open /\ view'.done = view.done
        BY <3>1, <3>2 DEF ViewShape
      <3>4. QED
        BY <3>1, <3>3 DEF ViewInv, ViewShape
    <2>5. ASSUME NEW t, NEW d \in BOOLEAN, Launch(t, d) PROVE ViewInv'
      <3>1. /\ view' = [open |-> TRUE, targets |-> t, dry |-> d, cancelled |-> FALSE, done |-> FALSE]
            /\ pc'[Tui] = "locking"
        BY <1>0, <2>5, <1>g DEF Launch
      <3>2. ViewShape(view)' /\ view'.open /\ ~view'.done
        BY <3>1 DEF ViewShape
      <3>3. QED
        BY <3>1, <3>2 DEF ViewInv, ViewShape
    <2>6. CASE LaunchRun \/ StartRunAll
      BY <2>5, <2>6 DEF LaunchRun, StartRunAll
    <2>7. QED
      BY <1>3, <1>4, <2>1, <2>2, <2>3, <2>4, <2>6 DEF TuiStep
  <1>5. QED
    BY <1>1, <1>2, <1>4 DEF Next

-----------------------------------------------------------------------------
HistInv == IInv /\ RunsInv /\ ViewInv

LEMMA InitHist == Init => HistInv
  <1> SUFFICES ASSUME Init PROVE HistInv
    OBVIOUS
  <1>1. StartInv
    <2>1. \A p \in Procs : res[p].start = 0 /\ res[p].scenarios = <<>>
      BY DEF Init, NoRun
    <2>2. clock = 0 /\ \A p \in Procs : pc[p] \notin Running
      BY DEF Init, Running
    <2>3. QED
      BY <2>1, <2>2 DEF StartInv
  <1>2. history = <<>> /\ DOMAIN history = {} /\ history \in Seq({})
    BY DEF Init
  <1>3. HistoryInv
    BY <1>2 DEF HistoryInv
  <1>4. AckTimeInv
    BY <1>1, <1>2 DEF AckTimeInv, AsRecorded, Init
  <1>5. ViewInv
    BY <1>2 DEF ViewInv, Init, Closed, Procs
  <1>6. QED
    BY <1>1, <1>3, <1>4, <1>5, InitInv DEF HistInv, RunsInv

LEMMA HistStep == HistInv /\ [Next]_vars => HistInv'
  BY Inductive, RunsStep, ViewStep DEF HistInv

THEOREM HistoryHolds == Spec => []HistInv
  BY InitHist, HistStep, PTL DEF Spec

LEMMA RecordsFollow == HistInv => RecordsAreRuns
  <1> SUFFICES ASSUME HistInv PROVE RecordsAreRuns
    OBVIOUS
  <1>1. ASSUME NEW i \in DOMAIN history, history[i].scenarios # <<>>
        PROVE  history[i].time # 0
    BY <1>1 DEF HistInv, RunsInv, HistoryInv, OwnRecord
  <1>2. ASSUME NEW i \in DOMAIN history, NEW j \in DOMAIN history, i # j, history[i].scenarios # <<>>
        PROVE  history[i].time # history[j].time
    BY <1>1, <1>2 DEF HistInv, RunsInv, HistoryInv
  <1>3. ASSUME NEW i \in DOMAIN history, NEW p \in Procs, history[i].time = res[p].start,
               history[i].scenarios # <<>>
        PROVE  /\ history[i].verdict = Verdict(res[p])
               /\ Members(history[i].findings) = Observed(p)
    <2>1. OfRun(history[i], p) /\ history[i].time # 0
      BY <1>1, <1>3 DEF HistInv, RunsInv, HistoryInv
    <2>2. history[i] = RecordOf(res[p])
      BY <1>3, <2>1 DEF OfRun
    <2>3. RecordOf(res[p]).verdict = Verdict(res[p])
      BY DEF RecordOf
    <2>4. Members(RecordOf(res[p]).findings) = Observed(p)
      BY RecordIs DEF HistInv
    <2>5. QED
      BY <2>2, <2>3, <2>4
  <1>s. ASSUME NEW i \in DOMAIN history, NEW p \in Procs, history[i].time = res[p].start
        PROVE  history[i].scenarios = [k \in DOMAIN res[p].scenarios |-> res[p].scenarios[k].name]
    <2>1. CASE history[i].time = 0
      <3>1. history[i].scenarios = <<>> /\ res[p].scenarios = <<>>
        BY <1>s, <2>1 DEF HistInv, RunsInv, HistoryInv, OwnRecord, StartInv
      <3>2. QED
        BY <3>1
    <2>2. CASE history[i].time # 0
      <3>1. history[i] = RecordOf(res[p])
        BY <1>s, <2>2 DEF HistInv, RunsInv, HistoryInv, OfRun
      <3>2. QED
        BY <3>1 DEF RecordOf
    <2>3. QED
      BY <2>1, <2>2
  <1>4. ASSUME view.open, view.dry, view.done, NEW i \in DOMAIN history, history[i].time > 0
        PROVE  history[i].time # res[Tui].start
    <2>1. history[i].time \in 0..clock /\ clock \in Nat
      BY DEF HistInv, RunsInv, HistoryInv, StartInv
    <2>2. history[i].time # 0
      BY <1>4, <2>1
    <2>3. QED
      BY <1>4, <2>2 DEF HistInv, ViewInv
  <1>5. QED
    BY <1>2, <1>3, <1>s, <1>4 DEF RecordsAreRuns

(* A record of the history is of exactly one run, and says how it went; a  *)
(* dry run of the UI is in none: cmdRun and runLocked append what Run      *)
(* returned, once.                                                         *)
THEOREM EachRecordIsARun == Spec => []RecordsAreRuns
  BY HistoryHolds, RecordsFollow, PTL

(* The trend calls open what the last record lists as active.              *)
LEMMA OpenIsActive ==
  ASSUME NEW k \in DOMAIN history, \A f \in Members(history[k].findings) : f.nowPasses \in BOOLEAN
  PROVE  LET trend == FoldTrend(history, k)
         IN {id \in DOMAIN trend : trend[id].status = "open"}
              = Ids(FromObserved(Members(history[k].findings)))
  <1> DEFINE trend == FoldTrend(history, k)
             fs == Members(history[k].findings)
             seen == UNION {{f.id : f \in Members(history[i].findings)} : i \in DOMAIN history}
  <1>1. DOMAIN trend = seen /\ \A id \in seen : trend[id].status = StatusIn(history[k], id)
    <2>1. DOMAIN trend = seen
      BY Zenon DEF FoldTrend
    <2>2. ASSUME NEW id \in seen PROVE trend[id].status = StatusIn(history[k], id)
      BY <2>2, Zenon DEF FoldTrend
    <2>3. QED
      BY <2>1, <2>2
  <1>2. \A f \in fs : f.id \in seen
    OBVIOUS
  <1>3. \A id : StatusIn(history[k], id) = "open" <=> \E f \in fs : f.id = id /\ f.nowPasses = FALSE
    BY DEF StatusIn
  <1>4. \A id : id \in Ids(FromObserved(fs)) <=> \E f \in fs : f.id = id /\ ~f.nowPasses
    <2>1. \A e : e \in FromObserved(fs) <=>
                 \E f \in fs : ~f.nowPasses /\ e = [id |-> f.id, scenario |-> f.scenario]
      BY DEF FromObserved
    <2> HIDE DEF fs
    <2>2. ASSUME NEW f \in fs, ~f.nowPasses PROVE f.id \in Ids(FromObserved(fs))
      <3>1. [id |-> f.id, scenario |-> f.scenario] \in FromObserved(fs)
        BY <2>1, <2>2
      <3>2. QED
        BY <3>1 DEF Ids
    <2>3. ASSUME NEW e \in FromObserved(fs) PROVE \E f \in fs : f.id = e.id /\ ~f.nowPasses
      BY <2>1
    <2>4. QED
      BY <2>2, <2>3 DEF Ids
  <1>5. \A f \in fs : ~f.nowPasses <=> f.nowPasses = FALSE
    OBVIOUS
  <1> HIDE DEF trend, seen, fs
  <1>6. {id \in DOMAIN trend : trend[id].status = "open"} = Ids(FromObserved(fs))
    BY <1>1, <1>2, <1>3, <1>4, <1>5
  <1>7. QED
    BY <1>6 DEF trend, fs

LEMMA TrendFollows == HistInv => TrendMatchesLedger
  <1> SUFFICES ASSUME HistInv, ~torn, \A c \in Clis : pc[c] # "writing", NEW k \in Newest(history),
                      Members(history[k].scenarios) # {},
                      \A n \in Members(history[k].scenarios) :
                        n \in DOMAIN acked /\ acked[n].time = history[k].time
               PROVE  {id \in DOMAIN FoldTrend(history, k) : FoldTrend(history, k)[id].status = "open"}
                        = Ids({e \in ledger.entries : e.scenario \in Members(history[k].scenarios)})
    BY DEF TrendMatchesLedger
  <1> DEFINE of == Members(history[k].scenarios)
             active == FromObserved(Members(history[k].findings))
  <1>1. k \in DOMAIN history
    BY DEF Newest
  <1>2. OwnRecord(history[k])
    BY <1>1 DEF HistInv, RunsInv, HistoryInv
  <1>3. history[k].time # 0
    <2>1. history[k].scenarios # <<>>
      BY DEF Members
    <2>2. QED
      BY <1>2, <2>1 DEF OwnRecord
  <1>4. \A n \in of : n \in DOMAIN acked /\ acked[n].entries = {e \in active : e.scenario = n}
    BY <1>1, <1>3 DEF HistInv, RunsInv, AckTimeInv, AsRecorded
  <1>5. \A e \in active : e.scenario \in of
    BY <1>2 DEF OwnRecord, FromObserved
  <1>6. /\ ledger.entries = UNION {acked[n].entries : n \in DOMAIN acked}
        /\ \A n \in DOMAIN acked : \A e \in acked[n].entries : e.scenario = n
    BY DEF HistInv, IInv, NoLostAcknowledgement, AckedInv
  <1>7. {e \in ledger.entries : e.scenario \in of} = active
    <2> HIDE DEF of, active
    <2>1. ASSUME NEW e \in ledger.entries, e.scenario \in of PROVE e \in active
      BY <1>4, <1>6, <2>1
    <2>2. ASSUME NEW e \in active PROVE e \in ledger.entries
      BY <1>4, <1>5, <1>6, <2>2
    <2>3. QED
      BY <1>5, <2>1, <2>2
  <1>8. QED
    BY <1>1, <1>2, <1>7, OpenIsActive DEF OwnRecord

(* `shinari log` and the ledger agree on what is open, for the newest run  *)
(* of the history, if it refreshed the ledger (FoldTrend, Merge).          *)
THEOREM TrendAgrees == Spec => []TrendMatchesLedger
  BY HistoryHolds, TrendFollows, PTL
=============================================================================
