SPECIFICATION FairSpec
INVARIANT TypeOK
INVARIANT ExclusiveVolume
INVARIANT HostAloneOnVolume
PROPERTY HostSeesSettings
PROPERTY HandoverCompletes
