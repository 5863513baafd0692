SPECIFICATION MCSpec
CONSTANTS
    Looks = {short, tall, bare}
    short = short
    tall = tall
    bare = bare
    Names = {"emery"}
    Texts = {"scarred", "emery"}
    Styles = {"ink", "oil"}
    Appearance <- MCAppearance
    StyleProfile <- MCStyleProfile
    Uploads = {img1}
    img1 = img1
    Upserts = {u1, u2}
    u1 = u1
    u2 = u2
    Attaches = {a1}
    a1 = a1
    Bootstraps = {b1}
    b1 = b1
    Generations = {g1, g2}
    g1 = g1
    g2 = g2
    MaxRedeliveries = 1
SYMMETRY Symmetry
INVARIANTS ServedRenderEligible ConditionedFailsClosed VersionsRecordChanges
CHECK_DEADLOCK FALSE
