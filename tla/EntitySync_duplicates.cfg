CONSTANTS
  note = note
  course = course
  Entities = {note}
  TypeOf <- MCTypeOf
  NTypes = 2
  Texts = {t1}
  BlankTexts = {}
  PoisonTexts = {}
  Courses = {c1}
  Loop = loop
  Background = {}
  Enrichers = {enr}
  Absent = absent
  NoText = none
  MaxEdits = 1
  MaxCaptures = 1
  MaxFaults = 0
SPECIFICATION Spec
INVARIANT NoDuplicates
