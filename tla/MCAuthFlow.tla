------------------------------ MODULE MCAuthFlow ------------------------------
EXTENDS AuthFlow

MCVisits == {"/", "/audit-logs", "/settings"}
MCBoot == {{}, {"admin", "viewer"}}
=============================================================================
