--------------------------- MODULE MCSleepyEvents ---------------------------
\* SleepyEvents for TLC, on a GSN of three bits that wraps around.
EXTENDS SleepyEvents

MCIids == {1, 2}
MCStarts == {6}

=============================================================================
