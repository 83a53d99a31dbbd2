\* Three cells, so that a drag can cross one and come back, and three texts: the empty
\* one, the field's first one and another.
SPECIFICATION Spec
CONSTANTS
    Cells = {c1, c2, c3}
    Texts <- MCTexts
    NoCell = NoCell
    NoContent = NoContent
INVARIANTS
    BoardShowsContent FieldShowsMarked
PROPERTIES
    TypedGoesWhereMeant
