--------------------------- MODULE MCApprovalStore --------------------------
\* A renewal of the same approval, a denial, and a record of an older version.
EXTENDS ApprovalStore
CONSTANTS a, b
Request(art, dec, exp, ver) ==
    [artifact |-> art, decision |-> dec, expires |-> exp, version |-> ver]
MCRequests ==
    {Request(a, "approved", 1, "v2"), Request(a, "approved", Never, "v2"),
     Request(a, "denied", Never, "v2"), Request(a, "approved", Never, "v1")}
=============================================================================
