\* Two collects and a redaction of one package; or a collect, a redaction, a
\* transition and an attachment.  One lost lease or one kill at any step.  The one
\* phase after "red" is "proof".
SPECIFICATION Spec
CONSTANTS
    Collects = {c1, c2}
    Redacts = {r1}
    Moves = {t1}
    Attaches = {a1}
    Names = {n1, n2}
    Opaque = {n2}
    LastPhase = 1
    Made = Made
    None = None
    MaxTrouble = 1
    Teams <- Overlapping
SYMMETRY Symmetric
INVARIANTS ShareNeedsReport CollectedStays PhaseEarned AttachedStaysTrue
CHECK_DEADLOCK FALSE
