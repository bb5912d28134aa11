--------------------------- MODULE MCBleAccessory ---------------------------
\* Model-checking instance of BleAccessory: the caller, who has the handle and
\* makes one call at a time, and a background task, which polls.
EXTENDS BleAccessory

CONSTANTS caller, background

MCTasks == {caller, background}
MCKinds ==
    [t \in MCTasks |-> IF t = caller THEN {"write", "remove", "removeOther", "enable", "query"} ELSE {"read"}]

=============================================================================
