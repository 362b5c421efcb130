--------------------------------- MODULE Attach ---------------------------------
(***************************************************************************)
(* Sidecars that attach to one exchange directory: SidecarLock             *)
(* (pz_agent_core/session/lock.py) as SidecarLoop.attach and shutdown      *)
(* (pz_agent_cli/runtime.py) use it.  The lock is a file that acquire      *)
(* creates with O_EXCL, fills and reads back; a lock that is stale or that *)
(* cannot be read is removed by whoever wants it.  Each system call is a   *)
(* step of its own, and processes take them in any order.                  *)
(*                                                                         *)
(* refresh has no caller in the sidecar, so a record keeps the time at     *)
(* which it was written.  A file belongs to the process that created it:   *)
(* what a process writes into a file that was removed is seen by nobody.   *)
(***************************************************************************)
EXTENDS Integers, FiniteSets

CONSTANTS
    Proc,           \* sidecar processes
    StaleAfter,     \* stale_after_ms
    MaxAttempts,    \* MAX_ACQUIRE_ATTEMPTS
    MaxNow          \* bound: the clock

ASSUME AttachAssumption ==
    /\ StaleAfter \in Nat \ {0} /\ MaxAttempts \in Nat \ {0} /\ MaxNow \in Nat
    /\ IsFiniteSet(Proc)

VARIABLES
    now,        \* the wall clock
    lock,       \* the lock file
    stage,      \* where each process is
    tries,      \* attempts its acquire has made
    clock,      \* the clock as the attempt read it
    seen,       \* holder, the record the attempt judges
    judged,     \* history: the lock as _break_stale read it again
    robbed      \* history: who lost the file it had confirmed

lockVars == <<now, lock, stage, tries, clock, seen, judged, robbed>>

Absent == [is |-> "absent"]
Empty(p) == [is |-> "empty", by |-> p]
Claim(p, t) == [is |-> "record", by |-> p, at |-> t]
Unreadable == [is |-> "unreadable"]

Time == 0..MaxNow
Records == [is : {"record"}, by : Proc, at : Time]
File == {Absent} \cup [is : {"empty"}, by : Proc] \cup Records

\* read
Readable == IF lock.is = "record" THEN lock ELSE Unreadable

\* is_stale; a record of the future has age zero.
IsStale(r, t) == t - r.at > StaleAfter

Goto(p, where) == stage' = [stage EXCEPT ![p] = where]

\* Between acquire and release.
Attached == {p \in Proc : stage[p] \in {"attached", "release", "remove"}}
NotRunning == {"off", "dead", "left"}

-----------------------------------------------------------------------------
(* acquire                                                                 *)

\* A process starts, or a user whose process was refused starts it again.
Start(p) ==
    /\ stage[p] = "off" /\ Goto(p, "create")
    /\ tries' = [tries EXCEPT ![p] = 0]
    /\ UNCHANGED <<now, lock, clock, seen, judged, robbed>>

\* The clock is read, and the file is created if there is none.
Create(p) ==
    /\ stage[p] = "create"
    /\ clock' = [clock EXCEPT ![p] = now] /\ tries' = [tries EXCEPT ![p] = @ + 1]
    /\ IF lock = Absent THEN lock' = Empty(p) /\ Goto(p, "write")
       ELSE UNCHANGED lock /\ Goto(p, "read")
    /\ UNCHANGED <<now, seen, judged, robbed>>

Write(p) ==
    /\ stage[p] = "write" /\ Goto(p, "confirm")
    /\ lock' = IF lock = Empty(p) THEN Claim(p, clock[p]) ELSE lock
    /\ UNCHANGED <<now, tries, clock, seen, judged, robbed>>

\* Mutant of Confirmed: what was written is not read back.
TrustsItsWrite(p) == TRUE

\* A claim counts when our own record is what is on disk.
Confirmed(p) == lock.is = "record" /\ lock.by = p

Confirm(p) ==
    /\ stage[p] = "confirm"
    /\ Goto(p, IF Confirmed(p) THEN "attached" ELSE "read")
    /\ UNCHANGED <<now, lock, tries, clock, seen, judged, robbed>>

NextAttempt(p) == Goto(p, IF tries[p] = MaxAttempts THEN "off" ELSE "create")

\* The holder is ourselves, is alive and we are refused, or is to be broken.
ReadHolder(p) ==
    /\ stage[p] = "read"
    /\ seen' = [seen EXCEPT ![p] = Readable]
    /\ Goto(p, IF lock.is # "record" THEN "judge"
               ELSE IF lock.by = p THEN "attached"
               ELSE IF IsStale(lock, clock[p]) THEN "judge"
               ELSE "off")
    /\ UNCHANGED <<now, lock, tries, clock, judged, robbed>>

\* Mutant of Unchanged: the lock is broken on the first reading alone.
NotReadAgain(p) == TRUE

\* Mutant of Unchanged: a lock that nobody can read is left alone.
OnlyReadable(p) == lock.is = "record" /\ lock = seen[p]

\* _break_stale: the lock is still what was judged, or still cannot be read.
Unchanged(p) == lock.is = "record" => lock = seen[p]

Judge(p) ==
    /\ stage[p] = "judge"
    /\ judged' = [judged EXCEPT ![p] = lock]
    /\ IF Unchanged(p) THEN Goto(p, "unlink") ELSE NextAttempt(p)
    /\ UNCHANGED <<now, lock, tries, clock, seen, robbed>>

\* unlink; refused, on some systems, while another process has the file open.
Unlink(p) ==
    /\ stage[p] = "unlink"
    /\ NextAttempt(p)
    /\ \/ /\ lock' = Absent
          /\ robbed' = IF lock.is = "record" /\ lock.by \in Attached
                       THEN robbed \cup {lock.by} ELSE robbed
       \/ \E q \in Proc : lock = Empty(q) /\ stage[q] = "write" /\ UNCHANGED <<lock, robbed>>
    /\ UNCHANGED <<now, tries, clock, seen, judged>>

-----------------------------------------------------------------------------
(* release, and the end of a process.                                      *)

\* In a bounded run a file is left behind early enough to go stale.
EarlyEnough == now + StaleAfter < MaxNow

StopSidecar(p) ==
    /\ stage[p] = "attached" /\ Goto(p, "release")
    /\ UNCHANGED <<now, lock, tries, clock, seen, judged, robbed>>

\* A record that names somebody else is not ours to remove.
Release(p) ==
    /\ stage[p] = "release"
    /\ Goto(p, IF lock.is = "record" /\ lock.by # p THEN "left" ELSE "remove")
    /\ UNCHANGED <<now, lock, tries, clock, seen, judged, robbed>>

\* unlink; when it is refused the process ends and its file stays, as after a kill.
RemoveOwn(p) ==
    /\ stage[p] = "remove" /\ Goto(p, "left")
    /\ \/ /\ lock' = Absent
          /\ robbed' = IF lock.is = "record" /\ lock.by \in Attached \ {p}
                       THEN robbed \cup {lock.by} ELSE robbed
       \/ EarlyEnough /\ UNCHANGED <<lock, robbed>>
    /\ UNCHANGED <<now, tries, clock, seen, judged>>

\* The process is killed, and leaves the file as it is.
Kill(p) ==
    /\ stage[p] \notin NotRunning /\ EarlyEnough
    /\ Goto(p, "dead")
    /\ UNCHANGED <<now, lock, tries, clock, seen, judged, robbed>>

Tick ==
    /\ now < MaxNow /\ now' = now + 1
    /\ UNCHANGED <<lock, stage, tries, clock, seen, judged, robbed>>

-----------------------------------------------------------------------------
LockInit ==
    /\ now = 0 /\ lock = Absent
    /\ stage = [p \in Proc |-> "off"] /\ tries = [p \in Proc |-> 0]
    /\ clock = [p \in Proc |-> 0] /\ seen = [p \in Proc |-> Unreadable]
    /\ judged = [p \in Proc |-> Absent] /\ robbed = {}

Acquire(p) ==
    Create(p) \/ Write(p) \/ Confirm(p) \/ ReadHolder(p) \/ Judge(p) \/ Unlink(p)

Leave(p) == StopSidecar(p) \/ Release(p) \/ RemoveOwn(p)

LockNext ==
    \/ \E p \in Proc : Start(p) \/ Acquire(p) \/ Leave(p) \/ Kill(p)
    \/ Tick

LockSpec == LockInit /\ [][LockNext]_lockVars

\* Time passes, a process that runs goes on, and a user who is refused tries
\* again; nobody has to stop a sidecar.
FairLockSpec ==
    /\ LockSpec /\ WF_lockVars(Tick)
    /\ \A p \in Proc : WF_lockVars(Start(p)) /\ WF_lockVars(Acquire(p))

-----------------------------------------------------------------------------
(* Properties.                                                             *)

\* Types; an acquire makes at most MaxAttempts attempts.
LockTypeOK ==
    /\ now \in Time /\ lock \in File
    /\ stage \in [Proc -> {"off", "create", "write", "confirm", "read", "judge", "unlink",
                        "attached", "release", "remove", "left", "dead"}]
    /\ tries \in [Proc -> 0..MaxAttempts] /\ clock \in [Proc -> Time]
    /\ seen \in [Proc -> Records \cup {Unreadable}] /\ judged \in [Proc -> File]
    /\ robbed \subseteq Proc

\* Creation with O_EXCL and the read-back leave one way to a second sidecar: of
\* the attached ones that nobody robbed of a lock they had confirmed, there is
\* at most one.
OneUnlessRobbed == Cardinality(Attached \ robbed) <= 1

\* _break_stale re-reads the lock before it removes it: a lock it takes from an
\* attached sidecar was stale, or was claimed after that second reading.
RobbedWhenStaleOrRaced ==
    [][\A p \in Proc : Unlink(p) /\ robbed' # robbed
        => IsStale(lock, clock[p]) \/ lock # judged[p]]_lockVars

\* A lock that was never released does not wedge the directory (lock.py): when
\* no other process lives any more, one that keeps trying attaches.
NeverWedged ==
    \A p \in Proc :
        <>[](\A q \in Proc \ {p} : stage[q] \in {"dead", "left"})
            => <>(stage[p] \in {"attached", "dead", "left"})
=============================================================================
