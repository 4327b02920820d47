------------------------------ MODULE Registry ------------------------------
(***************************************************************************)
(* The registry's own write routes beside the governed ones: POST, PATCH   *)
(* and DELETE on /v1/artifacts act on the same configuration_object rows   *)
(* as module Governance, under the same row locks, and write no audit      *)
(* event.  Each is one short transaction, so each is one step here, taken  *)
(* when the locks it needs are free.                                       *)
(***************************************************************************)
EXTENDS Governance

CONSTANTS
  Patches,    \* dimensions a PATCH may leave behind
  MaxVersion  \* bound: PATCH stops once a row has this version

ASSUME PatchesAreDimensions == Patches \subseteq Dimensions

VARIABLE used  \* ids ever given out: NewID never repeats one

registryVars == <<vars, used>>

\* createArtifact and insertTx: any dimensions that pass Validate.
Create(x, d) ==
  /\ x \notin used
  /\ Validate(d)
  /\ obj' = [obj EXCEPT ![x] = [dims |-> d, rv |-> 1]]
  /\ used' = used \cup {x}
  /\ UNCHANGED <<edges, chain, lockVars, reqVars>>

\* patchArtifact and ConfigObjectRepo.Update: each field is checked on its own
\* (toPatch); the WHERE clause enforces If-Match.  The row must not be locked FOR
\* UPDATE, while a FOR KEY SHARE lock does not stop the statement.
Update(x, expected, d) ==
  /\ Exists(x)
  /\ rowLock[x] = None
  /\ obj[x].rv = expected
  /\ expected < MaxVersion
  /\ obj' = [obj EXCEPT ![x] = [dims |-> d, rv |-> expected + 1]]
  /\ UNCHANGED <<edges, chain, lockVars, reqVars, used>>

\* Mutant: no cascade to the edges.
DeleteNoCascade(x) ==
  /\ Exists(x)
  /\ RowFree(x)
  /\ obj' = [obj EXCEPT ![x] = None]
  /\ UNCHANGED <<edges, chain, lockVars, reqVars, used>>

\* deleteArtifact and ConfigObjectRepo.Delete, with the cascade to its edges.
Delete(x) ==
  /\ Exists(x)
  /\ RowFree(x)
  /\ obj' = [obj EXCEPT ![x] = None]
  /\ edges' = {e \in edges : e[1] # x /\ e[2] # x}
  /\ UNCHANGED <<chain, lockVars, reqVars, used>>

-----------------------------------------------------------------------------
RegistryInit == Init /\ used = {x \in Cfg : Exists(x)}

RegistryNext ==
  \/ Next /\ UNCHANGED used
  \/ \E x \in Cfg, d \in Initial : Create(x, d)
  \/ \E x \in Cfg, n \in 1..MaxVersion, d \in Patches : Update(x, n, d)
  \/ \E x \in Cfg : Delete(x)

RegistrySpec == RegistryInit /\ [][RegistryNext]_registryVars

-----------------------------------------------------------------------------
\* While a governed transaction holds a row, the row it decided on stays the
\* committed one: neither PATCH nor DELETE slips between GetForUpdate and the
\* commit.
LockedRowIsStable ==
  \A c \in Client : pc[c] \in InTx =>
    /\ rowLock[cmd[c].cfg] = c
    /\ Exists(cmd[c].cfg)
    /\ seen[c] = obj[cmd[c].cfg]

\* No edge ever points from or to a missing object, although objects disappear
\* through two routes while Extensions are in flight (foreign keys and their
\* key-share locks).
EdgesHaveEndpoints ==
  \A e \in edges : Exists(e[1]) /\ Exists(e[2])

\* Row versions only go up along a chain, so an audited version is never
\* reused, PATCH or not.
AuditedVersionsGrow ==
  \A x \in Cfg : \A i, j \in DOMAIN chain[x] :
    i < j /\ ~chain[x][j].removed => chain[x][i].rv < chain[x][j].rv
=============================================================================
