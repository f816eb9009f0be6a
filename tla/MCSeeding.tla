----------------------------- MODULE MCSeeding -----------------------------
EXTENDS Seeding, TLC

MCSeedRole == [e \in Seeded |-> "tenant_admin"]

\* Transactions are alike.
ReqSymmetry == Permutations(Req)

=============================================================================
