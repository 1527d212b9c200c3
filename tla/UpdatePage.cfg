SPECIFICATION Spec
CONSTANTS
  Anker = Anker
  Nil = Nil
  Regression = Regression
  Development = Development
  MaxVersions = 2
  Files <- SomeFiles
  Sample <- Quarter
  EditsOf <- SomeEdits
INVARIANTS
  MaterialMatchesSelection
PROPERTIES
  LibraryIsReviewed
