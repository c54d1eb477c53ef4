----------------------------- MODULE MCHandover -----------------------------
(* Bands that were founded already, for TLC: everybody is in them. *)
EXTENDS Bands, TLC

Founded ==
    /\ accounts = People /\ bands = Bands
    /\ \E f \in People : role = [x \in Bands |-> [u \in People |->
                                   IF u = f THEN Owner ELSE Member]]
    /\ invite = [i \in Invites |-> NoInvite]
    /\ bandTx = [x \in BandTxs |-> NoTx]
    /\ staffAdded = [x \in Bands |-> 0] /\ staffActs = 0

Spec == Founded /\ [][BandNext]_bandVars

\* Transactions are alike.
Symmetry == Permutations(BandTxs)
=============================================================================
