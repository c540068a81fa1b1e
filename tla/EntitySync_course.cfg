CONSTANTS
  note = note
  course = course
  Entities = {note}
  TypeOf <- MCTypeOf
  NTypes = 2
  Texts = {t1}
  BlankTexts = {}
  PoisonTexts = {}
  Courses = {c1, c2}
  Loop = loop
  Background = {}
  Enrichers = {}
  Absent = absent
  NoText = none
  MaxEdits = 2
  MaxCaptures = 0
  MaxFaults = 0
SPECIFICATION FairSpec
PROPERTY PayloadCatchesUp
