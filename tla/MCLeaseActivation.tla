------------------------- MODULE MCLeaseActivation -------------------------
(* Two leases: one that may disconnect for a while, one that may not.      *)
EXTENDS LeaseActivation

MCHorizon == 5
MCCodes == {"OWNER_RECLAIM", "LEASE_EXPIRED", "WORKLOAD_COMPLETED", "WORKER_LOST", "UNREGISTERED"}
MCAppliesTo ==
    [c \in MCCodes \ {"UNREGISTERED"} |->
        CASE c = "OWNER_RECLAIM" -> {"revoked"}
          [] c = "LEASE_EXPIRED" -> {"expired"}
          [] c = "WORKLOAD_COMPLETED" -> {"released"}
          [] c = "WORKER_LOST" -> {"failed"}]

Lease(by, deadline, end, duration, disconnected) ==
    [status |-> "issued", generation |-> 1, issuedAt |-> 0, activateBy |-> by,
     activatedAt |-> Absent, renewalDeadline |-> deadline, expiresAt |-> end,
     leaseDurationSeconds |-> duration, maximumDisconnectedSeconds |-> disconnected,
     activationGrant |-> Absent, terminalAt |-> Absent, reason |-> Absent]

MCIssuedLeases == {Lease(1, 3, 5, 5, 2), Lease(2, Absent, 3, 2, 0)}
============================================================================
