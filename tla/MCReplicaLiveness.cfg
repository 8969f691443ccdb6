CONSTANTS
    Senders = {s1, s2}
    WindowLength = 3
    WindowSuccesses = 2
    Flaky = {0}
SPECIFICATION LiveSpec
PROPERTIES DiesOfFailures DetectorSettles
