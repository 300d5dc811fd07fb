SPECIFICATION Spec
CONSTANTS
  Client = {c1, c2}
  TaxId = {n1, n2}
  Text = {a}
  None = None
  MaxForms = 3
  MaxEdits = 2
  Taxpayer = {company, person}
  Firm = {company}
  Shared = {company}
  EditsAlone = 1
  SavesAlone = 2
  EditsTogether = 0
  SavesTogether = 3
  Tab = {t1, t2}
  OneTab = {t1}
  LastDay = 3
  MaxSpells = 2
  MaxCalls = 3
  Company = {co1, co2}
  Person = {p}
  Rule = {m}
  AdHoc = {x}
  Generation = {g1}
  Editor = {e1}
INVARIANT FieldsHold
INVARIANT OneSpellADay
INVARIANT ProfilesAreCoherent
PROPERTY SavesOfClientsAreSound
PROPERTY CheckAgreesWithConstraint
PROPERTY DefaultsReplaceNothingKnown
PROPERTY AdHocSurvives
CHECK_DEADLOCK FALSE
