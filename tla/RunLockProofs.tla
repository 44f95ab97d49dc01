--------------------------- MODULE RunLockProofs ---------------------------
(***************************************************************************)
(* Proofs about RunLock, for any number of runs and recoveries.  Mutual    *)
(* exclusion of the runs does not hold in general (a stale lock breaks     *)
(* it); what os.link gives by itself is OneWinner.  The invariant that     *)
(* shows it: while the directory is undisturbed, the lock file belongs to  *)
(* the one run that holds it, nobody has read anything but no lock or that *)
(* run's, and so nobody gets as far as unlinking it.  The other theorem:   *)
(* a run that is alone in its directory is never refused.                  *)
(***************************************************************************)
EXTENDS RunLock, TLAPS

\* The lock file and its holder go together.
LockIsHolder ==
    /\ \A p \in Processes : Holding(p) => lock = p
    /\ lock # None => lock \in Runs /\ Holding(lock)

\* Nobody has seen a lock that may be cleared.
NothingStaleSeen ==
    /\ \A p \in Processes : seen[p] # None => seen[p] \in Runs /\ Holding(seen[p])
    /\ \A p \in Processes : pc[p] = "text" => lock # None
    /\ \A p \in Processes : pc[p] # "unlinking"

Undisturbed == fresh => LockIsHolder /\ NothingStaleSeen

\* Only runs try to link a lock file.
OnlyRunsLink == \A p \in Processes : pc[p] \in {"linking", "relinking"} => p \in Runs

IInv == TypeOK /\ OnlyRunsLink /\ Undisturbed

\* The invariant holds in every initial state: with a lock left by a dead run
\* the directory is not fresh.
LEMMA InitIInv == ASSUME LockAssumption, Init PROVE IInv
<1>1. TypeOK  BY DEF Init, TypeOK, PCs, Acquiring
<1>2. OnlyRunsLink  BY DEF Init, OnlyRunsLink
<1>3. Undisturbed  BY DEF Init, Undisturbed, LockIsHolder, NothingStaleSeen, Holding
<1> QED BY <1>1, <1>2, <1>3 DEF IInv

\* The steps of read_lock, and of those who ask for it, keep the types; so do
\* the others.
LEMMA TypeStep ==
    ASSUME LockAssumption, TypeOK, OnlyRunsLink, Next
    PROVE  TypeOK' /\ OnlyRunsLink'
<1> PICK p \in Processes :
      \/ Start(p) \/ Acquire(p) \/ WriteReport(p) \/ Release(p)
      \/ Abort(p) \/ Rebuild(p) \/ Die(p)
  BY DEF Next
<1> USE DEF TypeOK, OnlyRunsLink, Goto, PCs, Acquiring, Processes
<1>1. CASE Start(p)  BY <1>1 DEF Start
<1>2. CASE Acquire(p)
  <2>1. CASE Link(p)  BY <2>1 DEF Link
  <2>2. CASE Look(p)  BY <2>2 DEF Look
  <2>3. CASE Text(p)  BY <2>3 DEF Text
  <2>4. CASE Check(p)  BY <2>4 DEF Check
  <2>5. CASE Clear(p)  BY <2>5 DEF Clear, AfterClear
  <2>6. CASE Unlink(p)  BY <2>6 DEF Unlink, AfterClear
  <2>7. CASE Relink(p)  BY <2>7 DEF Relink
  <2> QED BY <1>2, <2>1, <2>2, <2>3, <2>4, <2>5, <2>6, <2>7 DEF Acquire
<1>3. CASE WriteReport(p)  BY <1>3 DEF WriteReport
<1>4. CASE Release(p)  BY <1>4 DEF Release
<1>5. CASE Abort(p)  BY <1>5 DEF Abort
<1>6. CASE Rebuild(p)  BY <1>6 DEF Rebuild
<1>7. CASE Die(p)  BY <1>7 DEF Die
<1> QED BY <1>1, <1>2, <1>3, <1>4, <1>5, <1>6, <1>7

\* While the directory stays fresh, the lock file stays its holder's: the first
\* to link it wins, and everyone who reads it finds a live owner.
LEMMA UndisturbedStep ==
    ASSUME LockAssumption, IInv, Next
    PROVE  Undisturbed'
<1> SUFFICES ASSUME fresh' PROVE LockIsHolder' /\ NothingStaleSeen'
  BY DEF Undisturbed
<1> PICK p \in Processes :
      \/ Start(p) \/ Acquire(p) \/ WriteReport(p) \/ Release(p)
      \/ Abort(p) \/ Rebuild(p) \/ Die(p)
  BY DEF Next
<1>0. fresh
  BY DEF Start, Acquire, Link, Look, Text, Check, Clear, Unlink, Relink, WriteReport,
         Release, Abort, Rebuild, Die
<1>a. LockIsHolder /\ NothingStaleSeen /\ TypeOK /\ OnlyRunsLink
  BY <1>0 DEF IInv, Undisturbed
<1> USE <1>a DEF LockIsHolder, NothingStaleSeen, Holding, Goto, TypeOK, Processes
<1>1. CASE Start(p)  BY <1>1 DEF Start
<1>2. CASE Acquire(p)
  <2>1. CASE Link(p)  BY <2>1 DEF Link, OnlyRunsLink
  <2>2. CASE Look(p)  BY <2>2 DEF Look
  <2>3. CASE Text(p)  BY <2>3 DEF Text
  <2>4. CASE Check(p)  BY <2>4 DEF Check
  <2>5. CASE Clear(p)
    <3>1. seen[p] = None \/ Alive(seen[p])  BY DEF Alive
    <3> QED BY <2>5, <3>1 DEF Clear, AfterClear
  <2>6. CASE Unlink(p)  BY <2>6 DEF Unlink
  <2>7. CASE Relink(p)  BY <2>7 DEF Relink, OnlyRunsLink
  <2> QED BY <1>2, <2>1, <2>2, <2>3, <2>4, <2>5, <2>6, <2>7 DEF Acquire
<1>3. CASE WriteReport(p)  BY <1>3 DEF WriteReport
<1>4. CASE Release(p)  BY <1>4 DEF Release
<1>5. CASE Abort(p)  BY <1>5 DEF Abort
<1>6. CASE Rebuild(p)  BY <1>6 DEF Rebuild
<1>7. CASE Die(p)  BY <1>7 DEF Die
<1> QED BY <1>1, <1>2, <1>3, <1>4, <1>5, <1>6, <1>7

\* The invariant holds in every reachable state.
THEOREM LockInvariant == ASSUME LockAssumption PROVE Spec => []IInv
<1>1. Init => IInv  BY InitIInv
<1>2. IInv /\ [Next]_vars => IInv'
  <2> SUFFICES ASSUME IInv, [Next]_vars PROVE IInv'  OBVIOUS
  <2>1. CASE Next  BY <2>1, TypeStep, UndisturbedStep DEF IInv
  <2>2. CASE UNCHANGED vars
    BY <2>2 DEF vars, IInv, TypeOK, OnlyRunsLink, Undisturbed, LockIsHolder,
                NothingStaleSeen, Holding
  <2> QED BY <2>1, <2>2
<1> QED BY <1>1, <1>2, PTL DEF Spec

\* Every variable of the lock protocol keeps its type.
THEOREM LockTypeCorrect == ASSUME LockAssumption PROVE Spec => []TypeOK
<1>1. IInv => TypeOK  BY DEF IInv
<1> QED BY <1>1, LockInvariant, PTL

\* Of any number of runs that race for a fresh directory at most one holds its
\* lock, whatever sat recover does meanwhile (acquire in runlock.py).
THEOREM FreshRaceHasOneWinner == ASSUME LockAssumption PROVE Spec => []OneWinner
<1>1. IInv => OneWinner
  BY DEF IInv, Undisturbed, LockIsHolder, OneWinner, Processes
<1> QED BY <1>1, LockInvariant, PTL

-----------------------------------------------------------------------------
(* A process that comes alone *)

\* Before it has linked its file no process owns the lock, or has read that it does.
NotYetOwner ==
    \A p \in Processes : pc[p] \in Acquiring \cup {"idle"} => lock # p /\ seen[p] # p

\* While a process without rivals acquires the lock, nobody else is active; what it
\* read is still so, and once it has cleared the lock there is none.
AloneInv(p) ==
    /\ pc[p] \in Acquiring => \A q \in Processes \ {p} : ~Alive(q)
    /\ pc[p] = "decide" /\ seen[p] = None => lock = None
    /\ pc[p] = "relinking" => lock = None
    /\ pc[p] # "refused"
LonersInv == \A p \in Processes : ~rivals[p] => AloneInv(p)

\* A process appears as the owner, in the lock or in what was read, after linking.
LEMMA NotYetOwnerStep ==
    ASSUME LockAssumption, TypeOK, NotYetOwner, Next
    PROVE  NotYetOwner'
<1> PICK p \in Processes :
      \/ Start(p) \/ Acquire(p) \/ WriteReport(p) \/ Release(p)
      \/ Abort(p) \/ Rebuild(p) \/ Die(p)
  BY DEF Next
<1> USE DEF TypeOK, NotYetOwner, Goto, Acquiring
<1>0. \A q \in Processes : q # None /\ q # Unreadable
  BY DEF LockAssumption, Processes
<1>1. CASE Start(p)  BY <1>1 DEF Start
<1>2. CASE Acquire(p)
  <2>1. CASE Link(p)  BY <2>1 DEF Link
  <2>2. CASE Look(p)  BY <1>0, <2>2 DEF Look
  <2>3. CASE Text(p)  BY <1>0, <2>3 DEF Text
  <2>4. CASE Check(p)  BY <2>4 DEF Check
  <2>5. CASE Clear(p)  BY <2>5 DEF Clear, AfterClear
  <2>6. CASE Unlink(p)  BY <1>0, <2>6 DEF Unlink, AfterClear
  <2>7. CASE Relink(p)  BY <2>7 DEF Relink
  <2> QED BY <1>2, <2>1, <2>2, <2>3, <2>4, <2>5, <2>6, <2>7 DEF Acquire
<1>3. CASE WriteReport(p)  BY <1>3 DEF WriteReport
<1>4. CASE Release(p)  BY <1>0, <1>4 DEF Release
<1>5. CASE Abort(p)  BY <1>5 DEF Abort
<1>6. CASE Rebuild(p)  BY <1>6 DEF Rebuild
<1>7. CASE Die(p)  BY <1>7 DEF Die
<1> QED BY <1>1, <1>2, <1>3, <1>4, <1>5, <1>6, <1>7

\* A step of another process, while one acquires alone, can only be its start, and
\* that makes it a rival; the loner's own steps find what it left.
LEMMA LonersStep ==
    ASSUME LockAssumption, TypeOK, NotYetOwner, LonersInv, Next
    PROVE  LonersInv'
<1> PICK p \in Processes :
      \/ Start(p) \/ Acquire(p) \/ WriteReport(p) \/ Release(p)
      \/ Abort(p) \/ Rebuild(p) \/ Die(p)
  BY DEF Next
<1> SUFFICES ASSUME NEW q \in Processes, ~rivals'[q] PROVE AloneInv(q)'
  BY DEF LonersInv
<1>0. /\ None \notin Processes /\ Unreadable \notin Processes /\ Ghost \notin Processes
      /\ None # Unreadable
  BY DEF LockAssumption, Processes
<1> USE DEF TypeOK, Goto, Acquiring, AloneInv, Alive
<1>1. CASE Start(p)
  <2>1. ~rivals[q] /\ AloneInv(q)
    BY <1>1 DEF Start, LonersInv
  <2>2. CASE q = p
    BY <1>1, <2>1, <2>2 DEF Start
  <2>3. CASE q # p
    BY <1>1, <2>1, <2>3 DEF Start
  <2> QED BY <2>2, <2>3
<1>2. ~Start(p) => rivals' = rivals
  BY DEF Acquire, Link, Look, Text, Check, Clear, Unlink, Relink, WriteReport,
         Release, Abort, Rebuild, Die
<1>3. CASE ~Start(p) /\ q # p
  <2>0. Alive(p)
    BY <1>3 DEF Acquire, Link, Look, Text, Check, Clear, Unlink, Relink,
       WriteReport, Release, Abort, Rebuild, Die
  <2>1. AloneInv(q)
    BY <1>2, <1>3 DEF LonersInv
  <2>2. pc[q] \notin Acquiring /\ pc[q] # "refused"
    BY <1>3, <2>0, <2>1
  <2>3. pc'[q] = pc[q]
    BY <1>3 DEF Acquire, Link, Look, Text, Check, Clear, Unlink, Relink, WriteReport,
         Release, Abort, Rebuild, Die
  <2> QED BY <2>2, <2>3
<1>4. CASE ~Start(p) /\ q = p
  <2>0. AloneInv(p) /\ ~rivals[p]
    BY <1>2, <1>4 DEF LonersInv
  <2> USE <1>0, <1>4, <2>0
  <2>1. CASE Link(p)  BY <2>1 DEF Link
  <2>2. CASE Look(p)  BY <2>2 DEF Look
  <2>3. CASE Text(p)  BY <2>3 DEF Text
  <2>4. CASE Check(p)
    <3>1. ~Alive(seen[p])
      BY <2>4 DEF Check, NotYetOwner
    <3> QED BY <2>4, <3>1 DEF Check
  <2>5. CASE Clear(p)
    <3>1. ~Alive(seen[p])
      BY <2>5 DEF Clear, NotYetOwner
    <3> QED BY <2>5, <3>1 DEF Clear, AfterClear
  <2>6. CASE Unlink(p)  BY <2>6 DEF Unlink, AfterClear
  <2>7. CASE Relink(p)  BY <2>7 DEF Relink
  <2>8. CASE WriteReport(p)  BY <2>8 DEF WriteReport
  <2>9. CASE Release(p)  BY <2>9 DEF Release
  <2>10. CASE Abort(p)  BY <2>10 DEF Abort
  <2>11. CASE Rebuild(p)  BY <2>11 DEF Rebuild
  <2>12. CASE Die(p)  BY <2>12 DEF Die
  <2> QED BY <2>1, <2>2, <2>3, <2>4, <2>5, <2>6, <2>7, <2>8, <2>9, <2>10, <2>11, <2>12 DEF Acquire
<1> QED BY <1>1, <1>3, <1>4

\* A process that meets nobody while it acquires is never refused, whatever lock a
\* dead run left there: neither by check_recoverable nor by the one retry of acquire.
THEOREM LonersAreNotRefused == ASSUME LockAssumption PROVE Spec => []NoFalseRefusal
<1> DEFINE Inv == IInv /\ NotYetOwner /\ LonersInv
<1>1. Init => Inv
  <2> SUFFICES ASSUME Init PROVE Inv  OBVIOUS
  <2>1. IInv  BY InitIInv
  <2>2. NotYetOwner  BY DEF Init, NotYetOwner, Acquiring, LockAssumption, Processes
  <2>3. LonersInv  BY DEF Init, LonersInv, AloneInv, Acquiring
  <2> QED BY <2>1, <2>2, <2>3
<1>2. Inv /\ [Next]_vars => Inv'
  <2> SUFFICES ASSUME Inv, [Next]_vars PROVE Inv'  OBVIOUS
  <2>1. CASE Next  BY <2>1, TypeStep, UndisturbedStep, NotYetOwnerStep, LonersStep DEF IInv
  <2>2. CASE UNCHANGED vars
    BY <2>2 DEF vars, IInv, TypeOK, OnlyRunsLink, Undisturbed, LockIsHolder,
                NothingStaleSeen, Holding, NotYetOwner, LonersInv, AloneInv, Alive
  <2> QED BY <2>1, <2>2
<1>3. Inv => NoFalseRefusal  BY DEF LonersInv, AloneInv, NoFalseRefusal
<1> QED BY <1>1, <1>2, <1>3, PTL DEF Spec
=============================================================================
