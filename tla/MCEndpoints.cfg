SPECIFICATION Spec
CONSTANTS
  Names <- Words
  Versions <- VersionIds
  FlaskApps <- AllFlask
  DjangoApps <- AllDjango
  Verbs = {"GET", "POST", "HEAD"}
CHECK_DEADLOCK FALSE
INVARIANT AskedIsPublished
