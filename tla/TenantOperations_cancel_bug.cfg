CONSTANTS
    MaxRequests = 2
    Requesters = {s1}
    Approvers = {s1, s2, s3}
    Actions = {"tenant.blacklist", "tenant.unblacklist", "tenant.offboard"}
    Nobody = nobody
    MaxJobs = 2
SPECIFICATION Spec
PROPERTY CancelledIsNotWiped
CHECK_DEADLOCK FALSE
