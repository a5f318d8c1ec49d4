------------------------ MODULE MCTenantConnection -------------------------
EXTENDS TenantConnection, TLC

\* core: roles of identity, security and intune; extra: of exchange and
\* collaboration.  RecordsManagement (purview) is in no union.
MCRoles    == {"core", "extra"}
MCCore     == {"core"}
MCTolerant == {"extra"}

MCSymmetry == Permutations(Users) \cup Permutations(Tabs) \cup Permutations(Tenants)
=============================================================================
