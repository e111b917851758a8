SPECIFICATION TestSpec
INVARIANTS ResultIsTrue InterruptedIsStopped
PROPERTY TestReturns
