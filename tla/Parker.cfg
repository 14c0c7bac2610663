\* Four wakers race one parker.
CONSTANT Wakers = {a1, a2, a3, a4}
SPECIFICATION FairParkerSpec
INVARIANTS NoLostWake
PROPERTIES TokenEndsAPark WakeEndsPark DeadlineEndsPark
