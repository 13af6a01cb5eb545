---------------------------- MODULE KeyLifecycle ----------------------------
(* What contracts/test-key-lifecycle.mjs asserts of one vector.  valid is  *)
(* what node:crypto says of the signature.                                 *)
EXTENDS LeaseRules

Revoked(v) == v.revokedAt # Absent /\ v.revokedAt <= v.time

\* The end of the interval taken for a part of it, a fault.
MayAuthorizeToTheEnd(v) == v.valid /\ v.start <= v.time /\ v.time <= v.end /\ ~Revoked(v)

MayAuthorize(v) == v.valid /\ v.start <= v.time /\ v.time < v.end /\ ~Revoked(v)

VectorSound(v) ==
    /\ \A t \in {v.time, v.start, v.end} : Readable(t)
    /\ v.revokedAt # Unreadable
    /\ v.start < v.end
    /\ v.expectedCryptographicValidity = v.valid
    /\ v.expectedNewAuthorization = MayAuthorize(v)

============================================================================
