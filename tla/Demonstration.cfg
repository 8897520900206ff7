SPECIFICATION Spec
CONSTANTS
  Page = {p1}
  Own = {o1}
  Nobody = Nobody
  MaxRuns = 2
  MaxKept = 1
  MaxDeaths = 1
INVARIANTS
  NeverMistaken
  OutcomeTold
PROPERTIES
  OwnRecordsStand
  ButtonsComeBack
