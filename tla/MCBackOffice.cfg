SPECIFICATION MCSpec
SYMMETRY Slots
CONSTANTS
    a1 = a1
    a2 = a2
    t1 = t1
    t2 = t2
    ann = ann
    bob = bob
    sue = sue
    us = us
    hq = hq
    e1 = e1
    e2 = e2
    h1 = h1
    h2 = h2
    v1 = v1
    v2 = v2
    v3 = v3
    u1 = u1
    u2 = u2
    Account = {a1, a2}
    Tenant = {t1, t2}
    Template <- MCTemplate
    Editor = {e1, e2}
    MaxProjects = 2
    LastDay = 1
    Company = {us, hq}
    Member = {ann, bob, sue}
    SuperMember = {sue}
    Home <- MCHome
    AISystem = {"ours", "theirs"}
    OwnerOf <- MCOwnerOf
    Risk = {"k1"}
    Incident = {"n1"}
    Action = {"c1"}
    Evidence = {"v1"}
    Handler = {h1, h2}
    Person = {ann, bob, sue}
    TenantOf <- MCTenantOf
    Administrator = {ann, bob}
    SuperAdmin = {sue}
    Visit = {v1, v2, v3}
    MaxFailed = 3
    LockPeriod = 1
    LastTick = 3
    CatalogKey = {"core", "compliance_monitor", "x"}
    CoreKey = "core"
    ComplianceKey = "compliance_monitor"
    Tier = {"starter", "business"}
    MinWorkflows <- MCMinWorkflows
    NeedsCompliance = {"business"}
    SeedKeys <- MCSeedKeys
    Updater = {u1, u2}
INVARIANTS
    SecondProjectHasAReason
    DatesFitStatuses
    WhatIsShownCanBeChanged
    GuessesAreBounded
    TierRulesHold
PROPERTIES
    TenantsAreLinkedOnce
    HighRiskNeedsSuperAdmin
    ScoresFollowTheTrail
    AnAdminRemains
CHECK_DEADLOCK FALSE
