------------------------------ MODULE KeyedWork ------------------------------
(***************************************************************************)
(* What the per-Session run coordinator promises, without its fibers,      *)
(* doorbells, settlement window or callers: for each key, work that was    *)
(* recorded with a scope stays owed until a drain wide enough for it       *)
(* begins, drains of one key never overlap, and no drain begins without    *)
(* work that is owed.                                                      *)
(*                                                                         *)
(* A scope says how much of a Session's inbox a drain may promote: "steer" *)
(* (steering input and control work) or "input" (queued prompts too).      *)
(***************************************************************************)
CONSTANTS Keys

None == "none"
Promotable == {"steer", "input"}
Scopes == Promotable \cup {None}

\* The wider of two scopes: "input" subsumes "steer", which subsumes nothing.
Wider(a, b) ==
  IF "input" \in {a, b} THEN "input"
  ELSE IF "steer" \in {a, b} THEN "steer" ELSE None

\* Scope a covers scope b.
Covers(a, b) == Wider(a, b) = a

VARIABLES
  owed,      \* [Keys -> Scopes]: recorded work no drain has started for
  serving,   \* [Keys -> Scopes]: the scope of the drain that runs, if any
  observed   \* the last call, or the last thing a drain did

vars == <<owed, serving, observed>>

Init ==
  /\ owed = [k \in Keys |-> None]
  /\ serving = [k \in Keys |-> None]
  /\ observed = <<"init">>

\* Someone records work and rings for it.
Wake(k, s) ==
  /\ observed' = <<"wake", k, s>>
  /\ owed' = [owed EXCEPT ![k] = Wider(@, s)]
  /\ UNCHANGED serving

\* A run of a quiet key asks for a drain of everything; otherwise it joins
\* what goes on and asks for nothing.
Run(k) ==
  /\ observed' = <<"run", k>>
  /\ \/ UNCHANGED owed
     \/ /\ owed[k] = None /\ serving[k] = None
        /\ owed' = [owed EXCEPT ![k] = "input"]
  /\ UNCHANGED serving

\* An accepted interrupt gives up all work recorded before it.
Interrupt(k) ==
  /\ observed' = <<"interrupt", k>>
  /\ owed' = [owed EXCEPT ![k] = None]
  /\ UNCHANGED serving

\* The busy period broke before its first drain; r is still owed.
Fault(k, r) ==
  /\ observed' = <<"fault", k>>
  /\ Covers(owed[k], r)
  /\ owed' = [owed EXCEPT ![k] = r]
  /\ UNCHANGED serving

\* Teardown gives up everything.
Close ==
  /\ observed' = <<"close">>
  /\ owed' = [k \in Keys |-> None]
  /\ UNCHANGED serving

\* A drain begins with scope s; r, recorded meanwhile, stays owed.
Begin(k, s, r) ==
  /\ observed' = <<"drain", k, s>>
  /\ serving[k] = None
  /\ owed[k] = Wider(s, r)
  /\ serving' = [serving EXCEPT ![k] = s]
  /\ owed' = [owed EXCEPT ![k] = r]

Finish(k) ==
  /\ observed' = <<"end", k>>
  /\ serving[k] # None
  /\ serving' = [serving EXCEPT ![k] = None]
  /\ UNCHANGED owed

Next ==
  \/ \E k \in Keys : \/ \E s \in Promotable : Wake(k, s)
                     \/ Run(k)
                     \/ Interrupt(k)
                     \/ \E r \in Scopes : Fault(k, r)
                     \/ \E s \in Promotable, r \in Scopes : Begin(k, s, r)
                     \/ Finish(k)
  \/ Close

Spec == Init /\ [][Next]_vars
==============================================================================
