--------------------------- MODULE MCSttSessions ---------------------------
EXTENDS SttSessions
=============================================================================
