CONSTANT Thread = {t1, t2, t3, t4}
SPECIFICATION FairMonitorSpec
INVARIANTS MutualExclusion CountersAgree NoLostWakeup
PROPERTIES TurnsRespected NeitherStarves
