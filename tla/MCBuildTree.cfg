SPECIFICATION Spec
CONSTANTS
  Editable <- FewSources
  EditsDuringCompile = FALSE
INVARIANTS
  PassIsOfInputs
