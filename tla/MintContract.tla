---------------------------- MODULE MintContract ----------------------------
(***************************************************************************)
(* What the operator promises a client of the API about one CashuMint      *)
(* name, without caches, work queues, locks or retries: which write may    *)
(* follow which, and what the Ready condition may claim.                   *)
(***************************************************************************)
EXTENDS GeneratedObjects

VARIABLES declared,  \* the mint as users see it
          written,   \* per kind, what its object was last written from
          claim      \* the generation of which Ready=True is reported, or 0

vars == <<declared, written, claim>>

Declared == [uid : Nat, gen : Nat, spec : SUBSET Features, fin : BOOLEAN]
Nothing == [uid |-> 0, gen |-> 0, spec |-> {}, fin |-> FALSE]

Init == /\ declared = Nothing
        /\ written = [k \in Kinds |-> [uid |-> 0, gen |-> 0]]
        /\ claim = 0

\* Object k was written from the declared generation.
Current(k) == written[k].uid = declared.uid /\ written[k].gen = declared.gen

\* The objects that every pass writes anew, as far as the spec decides.
Needed == {k \in Kinds \ (CreateOnce \cup {"restoreJob"}) : Wanted(k, declared)}

Inputs == {"configMap", "pvc", "orchardPVC", "pgStatefulSet"}

---------------------------------------------------------------------------
\* A name may be declared again; no object was ever written for that mint.
Declare ==
    /\ declared.uid = 0
    /\ declared' \in Declared
    /\ declared'.gen = 1 /\ ~declared'.fin
    /\ \A k \in Kinds : written[k].uid < declared'.uid
    /\ UNCHANGED <<written, claim>>

\* An edit or a deletion request raises the generation; the finalizer stays.
Amend ==
    /\ declared.uid # 0
    /\ declared' \in Declared
    /\ declared'.uid = declared.uid
    /\ \/ declared'.gen = declared.gen + 1
       \/ declared'.gen = declared.gen /\ declared'.spec = declared.spec
    /\ declared.fin => declared'.fin
    /\ UNCHANGED <<written, claim>>

Withdraw ==
    /\ declared.uid # 0
    /\ declared' = Nothing /\ claim' = 0
    /\ UNCHANGED written

\* Objects are written for a mint that has its finalizer, from any generation
\* it has had, but never back, and the Deployment last.
Apply(k, g) ==
    /\ declared.uid # 0 /\ declared.fin
    /\ written[k].uid = declared.uid => g >= written[k].gen
    /\ k = "deployment" /\ g = declared.gen => \A i \in Inputs \cap Needed : Current(i)
    /\ written' = [written EXCEPT ![k] = [uid |-> declared.uid, gen |-> g]]
    /\ UNCHANGED <<declared, claim>>

\* Ready=True of the declared generation only once all of it is written; of an
\* older generation it says nothing; it may always be taken back.
Report(g) ==
    /\ declared.uid # 0
    /\ g = declared.gen => \A k \in Needed : Current(k)
    /\ claim' = g
    /\ UNCHANGED <<declared, written>>

Next == \/ Declare \/ Amend \/ Withdraw
        \/ \E g \in 0..declared.gen :
              Report(g) \/ \E k \in Kinds : Apply(k, g)

Spec == Init /\ [][Next]_vars
=============================================================================
