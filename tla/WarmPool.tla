------------------------------- MODULE WarmPool -------------------------------
(***************************************************************************)
(* The pool of pre-created pods (agent/internal/k8s/warm_pool.go): for     *)
(* every (template, capabilities) key the list of warm ids ready to be     *)
(* claimed.  One mutex guards it; Claim holds it while it consults the pod *)
(* cache.                                                                  *)
(***************************************************************************)
EXTENDS PodManager

Seqs == INSTANCE SequencesExt

CONSTANT Target   \* targetSize of the pool of each key

ASSUME TargetAssumption == Target \in [Keys -> Nat]

VARIABLE pool   \* WarmPool.pool: key -> warm ids

PoolTypeOK == pool \in [Keys -> Seq(WarmIds)]

PoolInit == pool = [k \in Keys |-> <<>>]

\* The cached information says the pod of id is ready.
Serves(id) == id \in Cached /\ cache[id].ready

-------------------------------------------------------------------------------
\* Mutant: the claimed id stays in the list.
ClaimHit_Keep(key, id) ==
  \E i \in DOMAIN pool[key] :
    /\ id = pool[key][i]
    /\ Serves(id)
    /\ UNCHANGED pool

\* Claim of the first id of the list that is ready: ids that are not are
\* stepped over and stay.
ClaimHit(key, id) ==
  \E i \in DOMAIN pool[key] :
    /\ id = pool[key][i]
    /\ Serves(id)
    /\ \A j \in 1..(i-1) : ~Serves(pool[key][j])
    /\ pool' = [pool EXCEPT ![key] = Seqs!RemoveAt(@, i)]

ClaimMisses(key) == \A i \in DOMAIN pool[key] : ~Serves(pool[key][i])

MarkReady(id, key) == pool' = [pool EXCEPT ![key] = Append(@, id)]

IsWarm(id) == \E k \in Keys : \E i \in DOMAIN pool[k] : pool[k][i] = id

\* Mutant: an overfull pool is not treated apart.
Needed_Unclamped(key) == Target[key] - Len(pool[key])

\* How many pods fill sets out to create.
Needed(key) == IF Target[key] > Len(pool[key])
               THEN Target[key] - Len(pool[key]) ELSE 0
===============================================================================
