---------------------- MODULE MCConversationLifecycle ----------------------
EXTENDS ConversationLifecycle

CONSTANTS handle, r1

MCHandles == {handle}
MCRuns    == {r1}
=============================================================================
