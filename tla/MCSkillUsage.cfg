SPECIFICATION UsageSpec
CONSTANTS
  Agents = {a1, a2}
  Skills = {s1, s2}
  Own = {}
  MinUses = 2
  MaxPeriods = 1
SYMMETRY Same
PROPERTY UsedSkillsStay
