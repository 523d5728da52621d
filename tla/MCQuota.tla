------------------------------ MODULE MCQuota ------------------------------
EXTENDS Quota
AFew == {-1, 2}
=============================================================================
