--------------------------- MODULE MintImplements ---------------------------
(***************************************************************************)
(* CashuMintReconciler implements MintContract: what a client can observe  *)
(* of the reconciler, its caches and its failures is a behaviour of the    *)
(* contract.                                                               *)
(***************************************************************************)
EXTENDS CashuMintReconciler

declaredMint == [uid |-> mint.uid, gen |-> mint.gen, spec |-> mint.spec, fin |-> mint.fin]

lastWrites == [k \in Kinds |-> [uid |-> child[k].uid, gen |-> child[k].gen]]

readyClaim == IF mint.status.cond["Ready"].st = "True"
              THEN mint.status.cond["Ready"].og ELSE 0

Contract == INSTANCE MintContract WITH declared <- declaredMint,
                                       written <- lastWrites,
                                       claim <- readyClaim

\* Every step of the operator, the users, the caches, the garbage collector and
\* the failures is, for a client that looks at the mint, its objects and its
\* Ready condition, a step of the contract or none: writes only under the
\* finalizer and never back, the Deployment after its inputs, and Ready=True of
\* the current generation only after all of its objects.
ImplementsContract == Contract!Init /\ [][Contract!Next]_(Contract!vars)
=============================================================================
