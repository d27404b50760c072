-------------------------------- MODULE Facts --------------------------------
(***************************************************************************)
(* ost_utils.ansible.facts.Facts: the facts of one VM, gathered by ansible  *)
(* and cached.  The object is shared (facts.engine() and the others are     *)
(* lru_cached); what ansible gathered is kept in the private directory of   *)
(* the thread that asked, and facts_gathered is a thread-local flag, but    *)
(* _cache is one dict for all threads, replaced by every refresh.           *)
(***************************************************************************)
EXTENDS Naturals

CONSTANTS
    Threads,
    Names,         \* the facts that are asked for
    MaxVersion,    \* bound: changes of the VM
    MaxGets        \* bound: gets and refreshes of each thread

ASSUME FactsAssumption ==
    /\ MaxVersion \in Nat \ {0}
    /\ MaxGets \in Nat

VARIABLES
    users,      \* the threads that share the object in this behaviour
    version,    \* the state of the VM, 1, 2...; the value of a fact is its version
    defined,    \* the facts of each version that have a value; the others are null or not there
    cache,      \* self._cache, 0 for a name that is not in it
    gathered,   \* facts_gathered of each thread
    dir,        \* version of the facts in the private directory of a thread, or 0
    step,         \* "idle", "clear", "gather", "lookup", "index", "debug", "store"
    want,       \* the fact a thread is getting, None in a bare refresh
    value,      \* the value get returns, or is about to store
    answer,     \* how the last call of each thread ended
    gets        \* calls made so far

vm == <<users, version, defined>>
locals == <<want, value, answer, gets>>
factsVars == <<vm, cache, gathered, dir, step, locals>>

None == "none"
Answers == {None, "value", "refreshed", "KeyError", "FactNotFound", "AnsibleExecutionError"}
Versions == 1 .. MaxVersion

FactsInit ==
    /\ users \in SUBSET Threads \ {{}}
    /\ version = 1
    /\ defined \in [Versions -> SUBSET Names]
    /\ cache = [f \in Names |-> 0]
    /\ gathered = [t \in Threads |-> FALSE]
    /\ dir = [t \in Threads |-> 0]
    /\ step = [t \in Threads |-> "idle"]
    /\ want = [t \in Threads |-> None]
    /\ value = [t \in Threads |-> 0]
    /\ answer = [t \in Threads |-> None]
    /\ gets = [t \in Threads |-> 0]

\* A deployment script or a test changes the VM: facts change, come and go.
Change ==
    /\ version < MaxVersion
    /\ version' = version + 1
    /\ UNCHANGED <<users, defined, cache, gathered, dir, step, locals>>

At(t, label) == step' = [step EXCEPT ![t] = label]

\* get: if not self.facts_gathered: self.refresh()
GetFact(t, f) ==
    /\ step[t] = "idle" /\ gets[t] < MaxGets
    /\ gets' = [gets EXCEPT ![t] = @ + 1]
    /\ want' = [want EXCEPT ![t] = f]
    /\ answer' = [answer EXCEPT ![t] = None]
    /\ At(t, IF gathered[t] THEN "lookup" ELSE "clear")
    /\ UNCHANGED <<vm, cache, gathered, dir, value>>

Refresh(t) ==
    /\ step[t] = "idle" /\ gets[t] < MaxGets
    /\ gets' = [gets EXCEPT ![t] = @ + 1]
    /\ want' = [want EXCEPT ![t] = None]
    /\ answer' = [answer EXCEPT ![t] = None]
    /\ At(t, "clear")
    /\ UNCHANGED <<vm, cache, gathered, dir, value>>

Return(t, a) ==
    /\ answer' = [answer EXCEPT ![t] = a]
    /\ At(t, "idle")

\* Mutant: refresh keeps what is cached.
ClearNothing(t) ==
    /\ step[t] = "clear"
    /\ At(t, "gather")
    /\ UNCHANGED <<vm, cache, gathered, dir, locals>>

\* refresh: self._cache = {}
Clear(t) ==
    /\ step[t] = "clear"
    /\ cache' = [f \in Names |-> 0]
    /\ At(t, "gather")
    /\ UNCHANGED <<vm, gathered, dir, locals>>

\* Mutant: facts_gathered is an attribute of the object, not of the thread.
GatherForAll(t) ==
    /\ step[t] = "gather"
    /\ dir' = [dir EXCEPT ![t] = version]
    /\ gathered' = [u \in Threads |-> TRUE]
    /\ IF want[t] = None THEN Return(t, "refreshed")
                         ELSE At(t, "lookup") /\ UNCHANGED answer
    /\ UNCHANGED <<vm, cache, want, value, gets>>

\* refresh: gather_facts() into the thread's directory, then the flag.
Gather(t) ==
    /\ step[t] = "gather"
    /\ \/ /\ dir' = [dir EXCEPT ![t] = version]
          /\ gathered' = [gathered EXCEPT ![t] = TRUE]
          /\ IF want[t] = None THEN Return(t, "refreshed")
                               ELSE At(t, "lookup") /\ UNCHANGED answer
       \/ /\ Return(t, "AnsibleExecutionError")
          /\ UNCHANGED <<dir, gathered>>
    /\ UNCHANGED <<vm, cache, want, value, gets>>

\* if fact in self._cache:
Lookup(t) ==
    /\ step[t] = "lookup"
    /\ At(t, IF cache[want[t]] # 0 THEN "index" ELSE "debug")
    /\ UNCHANGED <<vm, cache, gathered, dir, locals>>

\*     return self._cache[fact]  -- of the dict that is there by now
Index(t) ==
    /\ step[t] = "index"
    /\ value' = [value EXCEPT ![t] = cache[want[t]]]
    /\ Return(t, IF cache[want[t]] = 0 THEN "KeyError" ELSE "value")
    /\ UNCHANGED <<vm, cache, gathered, dir, want, gets>>

\* What debug(var=fact) finds in the directory of its thread: nothing where the thread has
\* not gathered, and nothing that the VM has gained since.
Found(t) == dir[t] # 0 /\ want[t] \in defined[dir[t]]

\* FactNotFound for a variable that is not defined, for one that is null, and for a run that
\* matched no host and has no result.
Debug(t) ==
    /\ step[t] = "debug"
    /\ \/ /\ Found(t)
          /\ value' = [value EXCEPT ![t] = dir[t]]
          /\ At(t, "store")
          /\ UNCHANGED answer
       \/ /\ ~Found(t)
          /\ Return(t, "FactNotFound")
          /\ UNCHANGED value
       \/ /\ Return(t, "AnsibleExecutionError")
          /\ UNCHANGED value
    /\ UNCHANGED <<vm, cache, gathered, dir, want, gets>>

\* self._cache[fact] = value; return value
Store(t) ==
    /\ step[t] = "store"
    /\ cache' = [cache EXCEPT ![want[t]] = value[t]]
    /\ Return(t, "value")
    /\ UNCHANGED <<vm, gathered, dir, want, value, gets>>

Inside(t) == Clear(t) \/ Gather(t) \/ Lookup(t) \/ Index(t) \/ Debug(t) \/ Store(t)

FactsNext ==
    \/ Change
    \/ \E t \in users :
         \/ \E f \in Names : GetFact(t, f)
         \/ Refresh(t)
         \/ Inside(t)

FactsSpec == FactsInit /\ [][FactsNext]_factsVars
-----------------------------------------------------------------------------
FactsTypeOK ==
    /\ users \subseteq Threads
    /\ version \in Versions
    /\ defined \in [Versions -> SUBSET Names]
    /\ cache \in [Names -> Versions \cup {0}]
    /\ gathered \in [Threads -> BOOLEAN]
    /\ dir \in [Threads -> Versions \cup {0}]
    /\ step \in [Threads -> {"idle", "clear", "gather", "lookup", "index", "debug", "store"}]
    /\ want \in [Threads -> Names \cup {None}]
    /\ value \in [Threads -> Versions \cup {0}]
    /\ answer \in [Threads -> Answers]
    /\ gets \in [Threads -> 0 .. MaxGets]
    /\ \A t \in Threads :
         /\ step[t] \in {"lookup", "index", "debug", "store"} => want[t] \in Names
         /\ step[t] = "store" => value[t] \in Versions

\* A fact is reported missing only if the VM did not have it when this very thread gathered
\* last: never because another thread gathered, or dropped what was cached.  (What the VM
\* has gained since is missing until the thread refreshes.)
NotFoundIsTrue ==
    \A t \in Threads :
        answer[t] = "FactNotFound" => dir[t] # 0 /\ want[t] \notin defined[dir[t]]

\* When one thread uses the object, no get is answered with a value older than
\* what was last gathered: refresh really refreshes.
Fresh ==
    \A t \in users : users = {t} /\ answer[t] = "value" => value[t] >= dir[t]
=============================================================================
