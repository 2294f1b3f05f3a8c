----------------------------- MODULE MCEventBus -----------------------------
EXTENDS EventBus

CONSTANTS task, thread, closer

MCEmitters == {task, thread}
MCAsync    == {task}
MCFlushers == {closer}
=============================================================================
