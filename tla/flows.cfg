\* Every button, every bar and every form: two presses from two pages, two tries, one
\* change of the state by another hand; six inputs to a bar; two drafts in a field.
SPECIFICATION Spec
CONSTANTS
  Buttons <- AllButtons
  MAX_TRIES = 2
  MaxCalls = 2
  MaxForms = 2
  MaxChanges = 1
  Bars <- AllBars
  MaxInputs = 6
  Names <- AllForms
  Tries = 2
INVARIANTS
  ToastInv
  FilterInv
  PanelInv
PROPERTIES
  ToastEnds
  SavedCloses
CHECK_DEADLOCK FALSE
