\* One human approves while another rejects.
SPECIFICATION Spec
CONSTANTS
    x = x
    entX = entX
    class = class
    other = other
    Task = {t1, t2}
    ProposalId = {p1}
    Atom = {x}
    EntityId = {entX, class, other}
    SeededClass = {class}
    EntOf <- MCEntOf
    SeededLink = {}
    PersonClass = class
    Person = {other}
    Rel = {"instance_of", "references"}
    Drafts <- MCDrafts
    NoAtom = NoAtom
    NoProposal = NoProposal
SYMMETRY MCSymmetry
INVARIANTS
    RejectedWasNotApplied
