SPECIFICATION Spec
CONSTANTS
  a = a  b = b  c = c
  Packages = {a, b, c}
  Imports <- MCImports
  Projects <- KeptProjects
INVARIANTS GeneratedStaysTyped
