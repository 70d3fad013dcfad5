\* Two requests at a time on the rows of one small tenant.
SPECIFICATION Spec
CONSTANTS
    company = company
    plant = plant
    org = org
    vendor = vendor
    money = money
    newVendor = newVendor
    assigned = assigned
    order = order
    quotation = quotation
    invoice = invoice
    NoJob = NoJob
    Null = Null
    Slots = {s1, s2}
    Rows <- MCRows
    KindOf <- MCKindOf
    Seeded <- MCSeeded
    SeedRefs <- MCSeedRefs
    Jobs <- MCJobs
SYMMETRY Symmetry
INVARIANTS ReferenceDataInv CurrenciesKept DeletedVendorsSettle BothPlacesRefused
