CONSTANTS
    MaxRequests = 2
    Requesters = {s1}
    Approvers = {s1, s2, s3}
    Actions = {"tenant.blacklist", "tenant.unblacklist", "tenant.offboard"}
    Nobody = nobody
    MaxJobs = 2
SPECIFICATION Spec
INVARIANTS TypeOK ApprovalsAreSound OffboardingIsApproved
PROPERTIES WipesAreEarned DueWipesAreHandled
CHECK_DEADLOCK FALSE
