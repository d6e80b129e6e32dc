SPECIFICATION FairSpec
PROPERTY DeferredNotDropped
