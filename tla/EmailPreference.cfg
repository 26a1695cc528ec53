\* One tab, one link at a time, a bounce and an event of another type.
SPECIFICATION Spec
CONSTANTS
    Tabs = {t1}
    Links = {k1}
    Events = {"bounced", "opened"}
    Malformed = Malformed
    MaxToken = 1
INVARIANTS TypeOK StopHolds FeedbackStands
