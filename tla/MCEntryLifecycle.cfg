SPECIFICATION FairSpec
INVARIANTS TypeOK OneCall NoOrphan ManagerFollowsEntry
PROPERTIES NothingSpins
