CONSTANTS
  note = note
  course = course
  Entities = {note, course}
  TypeOf <- MCTypeOf
  NTypes = 2
  Texts = {t1, t2, blank, poison}
  BlankTexts = {blank}
  PoisonTexts = {poison}
  Courses = {c1}
  Loop = loop
  Background = {bg}
  Enrichers = {enr}
  Absent = absent
  NoText = none
  MaxEdits = 2
  MaxCaptures = 1
  MaxFaults = 2
SPECIFICATION FairSpec
INVARIANTS
  TypeOK
  OneBatchPerWriter
  SyncedAsRead
PROPERTIES
  IndexCatchesUp
  ImplementsSearchIndex
