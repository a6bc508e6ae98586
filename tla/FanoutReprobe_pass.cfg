SPECIFICATION Spec
CONSTANTS
  a1 = a1  a2 = a2  a3 = a3  b1 = b1  A = A  B = B  p1 = p1  p2 = p2
  Keys = {a1, a2, a3, b1}
  ParentOf <- OnPrompts  Rank <- Order  Issuers <- IssuedBy
  Configured = {"openai_api", "gemini_api"}  Price <- Prices
  PerPrompt = 2  PerRun = 2
  PriorKeys = {b1}  PriorPresence <- Found
  Passes = {p1, p2}  Kind <- FinalAndJob
  Jobs = {j1}
  MaxCalls = 0  MaxEdits = 1  MaxKills = 1
  NoRow = NoRow  NoSurface = NoSurface
CHECK_DEADLOCK FALSE
INVARIANTS ClaimsTrue NoSilentDrop
PROPERTY MeasuredStays
