\* One member, one page, everything else the member has.
SPECIFICATION Spec
INVARIANTS TypeOK ShutForAReason
