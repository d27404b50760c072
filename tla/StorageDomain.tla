---------------------------- MODULE StorageDomain ----------------------------
(***************************************************************************)
(* The life of a storage domain in the network suite: the two context       *)
(* managers storagelib.storage_domain and datacenterlib.attached_storage_   *)
(* domain, nested as the tests nest them, and the session fixture           *)
(* default_storage_domain, which imports a domain an earlier session left   *)
(* behind or creates it; and storage_utils.domain.add of the basic suites,  *)
(* which waits for events of the engine around each of its two halves.      *)
(* The test process may be killed at any time; the engine survives and the  *)
(* next session starts over.                                                *)
(***************************************************************************)
EXTENDS SyncDecision, Naturals

CONSTANTS
    MaxTries,      \* bound: attempts of one sync
    MaxFaults,     \* bound: calls the engine refuses for an unlisted reason
    MaxStorageSessions    \* bound: sessions one after another

ASSUME StorageDomainAssumption ==
    /\ MaxTries \in Nat \ {0}
    /\ MaxFaults \in Nat
    /\ MaxStorageSessions \in Nat \ {0}

VARIABLES
    sd,        \* the engine's status of the domain
    tasks,     \* the engine runs a task that keeps the domain busy
    faults,    \* calls refused for an unlisted reason so far
    script,    \* "contexts", "fixture" or "basic" (each has a domain of its own)
    op,        \* the operation in progress, "body" or "end"
    tries,     \* attempts of its sync
    failed,    \* an exception left the script or is on its way out
    sessions   \* sessions started

storageEngine == <<sd, tasks, faults>>
storageVars == <<sd, tasks, faults, script, op, tries, failed, sessions>>

Statuses == {"absent", "creating", "unattached", "attaching", "active", "inactive",
             "preparing_for_maintenance", "maintenance"}
Transitional == {"creating", "attaching", "preparing_for_maintenance"}
Attached == {"attaching", "active", "inactive", "preparing_for_maintenance", "maintenance"}

StorageScripts == {"contexts", "fixture", "basic"}
Ops == {"import", "last_event", "create", "wait_unattached", "event_created", "find_dc",
        "attach", "wait_active", "event_active", "body", "deactivate", "wait_maintenance", "destroy",
        "end"}

\* domain.add: two blocks, each with wait_for_event around it, which reads the
\* last event when it is entered and waits for its own when it is left, also
\* when the block raised.
BasicOnReturn ==
    [last_event |-> "create", create |-> "wait_unattached",
     wait_unattached |-> "event_created", event_created |-> "find_dc",
     find_dc |-> "attach", attach |-> "wait_active", wait_active |-> "event_active",
     event_active |-> "end"]

BasicOnRaise ==
    [last_event |-> "end", create |-> "event_created", wait_unattached |-> "event_created",
     event_created |-> "end", find_dc |-> "end", attach |-> "event_active",
     wait_active |-> "event_active", event_active |-> "end"]

\* Mutant: attached_storage_domain does not wait for maintenance.
OnReturnNoWait ==
    [contexts |->
        [create |-> "wait_unattached", wait_unattached |-> "attach",
         attach |-> "wait_active", wait_active |-> "body", body |-> "deactivate",
         deactivate |-> "destroy", wait_maintenance |-> "destroy", destroy |-> "end"],
     fixture |->
        [import |-> "wait_active", create |-> "wait_unattached",
         wait_unattached |-> "attach", attach |-> "wait_active", wait_active |-> "end"],
     basic |-> BasicOnReturn]

\* Mutant: the fixture waits only for a domain it created.
OnReturnImportEnds ==
    [contexts |-> OnReturnNoWait.contexts,
     fixture |->
        [import |-> "end", create |-> "wait_unattached",
         wait_unattached |-> "attach", attach |-> "wait_active", wait_active |-> "end"],
     basic |-> BasicOnReturn]

\* Where control goes when an operation returns ...
OnReturn ==
    [contexts |->
        [create |-> "wait_unattached", wait_unattached |-> "attach",
         attach |-> "wait_active", wait_active |-> "body", body |-> "deactivate",
         deactivate |-> "wait_maintenance", wait_maintenance |-> "destroy",
         destroy |-> "end"],
     fixture |->
        [import |-> "wait_active", create |-> "wait_unattached",
         wait_unattached |-> "attach", attach |-> "wait_active", wait_active |-> "end"],
     basic |-> BasicOnReturn]

\* ... and when it raises: the finally clauses of the two context managers.
\* Only the missing domain of import_by_name is caught.
OnRaise ==
    [contexts |->
        [create |-> "end", wait_unattached |-> "destroy", attach |-> "destroy",
         wait_active |-> "deactivate", body |-> "deactivate",
         deactivate |-> "destroy", wait_maintenance |-> "destroy", destroy |-> "end"],
     fixture |->
        [import |-> "create", create |-> "end", wait_unattached |-> "end",
         attach |-> "end", wait_active |-> "end"],
     basic |-> BasicOnRaise]

FirstOp == [contexts |-> "create", fixture |-> "import", basic |-> "last_event"]

StorageInit ==
    /\ sd = "absent"
    /\ tasks \in BOOLEAN
    /\ faults = 0
    /\ script \in StorageScripts
    /\ op = FirstOp[script]
    /\ tries = 1
    /\ failed = FALSE
    /\ sessions = 1
-----------------------------------------------------------------------------
\* The engine, as far as the client relies on it.

\* A command that was accepted completes; storage may fail to become active.
Complete ==
    /\ \/ sd = "creating" /\ sd' = "unattached"
       \/ sd = "attaching" /\ sd' \in {"active", "inactive"}
       \/ sd = "preparing_for_maintenance" /\ sd' = "maintenance"
    /\ UNCHANGED <<tasks, faults, script, op, tries, failed, sessions>>

TasksChange ==
    /\ tasks' = ~tasks
    /\ UNCHANGED <<sd, faults, script, op, tries, failed, sessions>>

\* The error the engine answers o with, "ok" when it accepts it.
Refusal(o) ==
    CASE o = "import" /\ sd = "absent" -> "fatal"
      [] o = "create" /\ sd # "absent" -> "fatal"
      [] o = "attach" /\ sd # "unattached" -> "fatal"
      [] o \in {"wait_active", "wait_maintenance"} /\ sd \notin Attached -> "fatal"
      [] o = "wait_unattached" /\ sd = "absent" -> "fatal"
      [] o = "deactivate" /\ sd \notin Attached -> "fatal"
      [] o = "deactivate" /\ sd \in Attached /\ (tasks \/ sd \in Transitional) -> "busy"
      [] o = "deactivate" /\ sd = "maintenance" /\ ~tasks -> "fatal"
      [] o = "destroy" /\ sd \in {"absent", "active", "inactive"} -> "fatal"
      [] o = "destroy" /\ (sd \in Transitional \/ (tasks /\ sd \in {"unattached", "maintenance"})) -> "busy"
      [] OTHER -> "ok"

\* The event o waits for is in the log: USER_ADD_STORAGE_DOMAIN, or both
\* USER_ATTACH_STORAGE_DOMAIN_TO_POOL and USER_ACTIVATED_STORAGE_DOMAIN.
EventSeen(o) ==
    IF o = "event_created" THEN sd \notin {"absent", "creating"} ELSE sd = "active"

AfterAccepted(o) ==
    CASE o = "create" -> "creating"
      [] o = "attach" -> "attaching"
      [] o = "deactivate" -> "preparing_for_maintenance"
      [] o = "destroy" -> "absent"
      [] OTHER -> sd
-----------------------------------------------------------------------------
\* The client.

\* The waits at the end of wait_for_event.
Events == {"event_created", "event_active"}

\* The operations that are wrapped in sync; the others are plain calls.
Synced == {"wait_unattached", "wait_active", "wait_maintenance", "deactivate", "destroy"}

\* success_criteria: the waits compare the status (an error never equals it),
\* deactivate_storage_domain_sync and destroy_sync pass none.
Success(o, answer) ==
    CASE o = "wait_unattached" -> answer = "ok" /\ sd = "unattached"
      [] o = "wait_active" -> answer = "ok" /\ sd = "active"
      [] o = "wait_maintenance" -> answer = "ok" /\ sd = "maintenance"
      [] o \in Events -> EventSeen(o)
      [] OTHER -> TRUE

\* error_criteria: the busy messages of error.py are retried.
Terminal(o, answer) ==
    ~(o \in {"deactivate", "destroy"} /\ answer = "busy")

\* assert_true_within: an error is raised at once, a wait goes on until it holds.
AssertVerdict(o, answer) ==
    CASE answer # "ok" -> "raise"
      [] answer = "ok" /\ Success(o, answer) -> "return"
      [] OTHER -> "retry"

Verdict(o, answer) ==
    IF script = "basic"
       THEN AssertVerdict(o, answer)
    ELSE IF o \in Synced
       THEN AttemptVerdict(tries = 1, answer # "ok", Success(o, answer), Terminal(o, answer))
       ELSE IF answer = "ok" THEN "return" ELSE "raise"

\* An exception of the block goes on when its event was seen.
Returns ==
    /\ op' = IF op \in Events /\ failed THEN "end" ELSE OnReturn[script][op]
    /\ tries' = 1
    /\ UNCHANGED failed

Raises ==
    /\ op' = OnRaise[script][op]
    /\ tries' = 1
    /\ failed' = (failed \/ op # "import")

\* After an attempt that settled nothing: another one, or Timeout is raised.
Retries ==
    \/ tries < MaxTries /\ tries' = tries + 1 /\ UNCHANGED <<op, failed>>
    \/ Raises

\* One attempt of op, refused or accepted; polls change nothing.
Attempt ==
    /\ op \notin {"body", "end"}
    /\ \E answer \in {Refusal(op), "fatal"} :
         /\ IF answer = Refusal(op)
               THEN UNCHANGED faults
               ELSE /\ op # "import"
                    /\ faults < MaxFaults
                    /\ faults' = faults + 1
         /\ sd' = IF answer = "ok" THEN AfterAccepted(op) ELSE sd
         /\ CASE Verdict(op, answer) = "return" -> Returns
              [] Verdict(op, answer) = "raise" -> Raises
              [] Verdict(op, answer) = "retry" -> Retries
    /\ UNCHANGED <<tasks, script, sessions>>

Body ==
    /\ op = "body"
    /\ Returns \/ Raises
    /\ UNCHANGED <<storageEngine, script, sessions>>

\* The process ends or is killed, and a new session begins.
NewSession ==
    /\ sessions < MaxStorageSessions
    /\ sessions' = sessions + 1
    /\ op' = FirstOp[script]
    /\ tries' = 1
    /\ failed' = FALSE
    /\ UNCHANGED <<storageEngine, script>>

Ended == op = "end" /\ UNCHANGED storageVars

Client == Attempt \/ Body

StorageNext == Complete \/ TasksChange \/ Client \/ NewSession \/ Ended

StorageSpec == StorageInit /\ [][StorageNext]_storageVars /\ WF_storageVars(Client) /\ WF_storageVars(Complete)
-----------------------------------------------------------------------------
StorageTypeOK ==
    /\ sd \in Statuses
    /\ tasks \in BOOLEAN
    /\ faults \in 0 .. MaxFaults
    /\ script \in StorageScripts
    /\ op \in Ops
    /\ tries \in 1 .. MaxTries
    /\ failed \in BOOLEAN
    /\ sessions \in 1 .. MaxStorageSessions

\* deactivate_storage_domain_sync may return although the engine refused: the
\* wait for maintenance behind it keeps an attached domain from being
\* destroyed, or left active, without an exception.
NoActiveLeak ==
    /\ op = "destroy" /\ ~failed => sd = "maintenance"
    /\ op = "end" /\ script = "contexts" /\ ~failed => sd \notin Attached \ {"maintenance"}

\* default_storage_domain never returns a domain that is not active, whatever an earlier
\* session left behind, and domain.add never returns before the domain is active: an
\* exception of a block is not lost in the wait for its event.
FixtureGivesActive ==
    op = "end" /\ script \in {"fixture", "basic"} /\ ~failed => sd = "active"
=============================================================================
