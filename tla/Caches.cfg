CONSTANTS
  a = a
  b = b
  t1 = t1
  t2 = t2
  r1 = r1
  r2 = r2
  c1 = c1
  Files = {a, b}
  Threads = {t1, t2}
  MaxVersion = 3
  Limit = 2
  CharLimit = 3
  Chars <- MCChars
  Readers = {r1, r2}
  MaxBytes = 3
  Cost <- MCChars
  Callers = {c1}
SPECIFICATION MCSpec
INVARIANTS AnswerWasOnDisk CacheAccounting TextsAreGenuine LangSettles
PROPERTY NewestParseWins
SYMMETRY Interchangeable
CHECK_DEADLOCK FALSE
